---- MODULE Spec2Model ----
(***************************************************************************)
(* Model of the multimodal enrichment core of Tremolo-Backend:              *)
(* enricher.py (frame slicing, metric extraction, the enrich_transcript     *)
(* loop) and heuristics.py (tagging, confidence scoring, sentence-level     *)
(* aggregation).                                                            *)
(*                                                                          *)
(* Numbers.  The Python code works on floats; the model uses exact          *)
(* integers in fixed units:                                                 *)
(*   - times and durations in milliseconds (0.15 s = 150);                  *)
(*   - intensities, landmark coordinates and wrist velocity in units of     *)
(*     1e-4 (0.065 = 650), the granularity of round(x, 4);                  *)
(*   - raw pitch samples in Hz, the pitch metric in units of 0.01 Hz        *)
(*     (PitchScale per Hz), the granularity of round(x, 2).                 *)
(* Means are compared as exact rationals (cross-multiplied) or rounded      *)
(* half-to-even the way Python's round() does.                              *)
(*                                                                          *)
(* Text.  A text is a sequence of one-character strings, so that lower(),   *)
(* strip(), len() and startswith() are computed and not assumed.            *)
(*                                                                          *)
(* Dicts.  A Python dict is a TLA+ function on its keys; a missing key is   *)
(* a key outside DOMAIN.  An optional argument is None or Some(v).          *)
(***************************************************************************)
EXTENDS Integers, Sequences, FiniteSets

\* ------------------------------------------------------------------------
\* Thresholds (heuristics.py, class Thresholds)
\* ------------------------------------------------------------------------
HIGH_GESTURE_ENERGY == 200
STATIC_HANDS == 50
MINIMAL_WORD_DURATION == 500
VERY_SHORT_WORD == 150
VOCAL_EMPHASIS == 650
MODERATE_EMPHASIS == 500
LOW_INTENSITY == 350
VERY_LOW_INTENSITY == 200
HIGH_PITCH == 350
VERY_HIGH_PITCH == 450
LOW_PITCH == 120
PITCH_RISE == 60
PITCH_FALL == 60
EMPHASIS_GESTURE_COMBO == 150
FILLER_WORD_INTENSITY == 450
VERY_FAST_WORD == 150
FAST_WORD == 250
SLOW_WORD == 800
VERY_SLOW_WORD == 1200
SHORT_PAUSE == 300
LONG_PAUSE == 800
VERY_LONG_PAUSE == 1500
INTENSITY_SPIKE == 300
INTENSITY_DROP == 200

\* units of the pitch metric per Hz (round(avg_pitch, 2))
PitchScale == 100

\* ------------------------------------------------------------------------
\* Lexicons (heuristics.py)
\* ------------------------------------------------------------------------
FILLER_WORDS ==
  {
    <<"a">>, <<"a", "c", "t", "u", "a", "l", "l", "y">>, <<"a", "h">>,
    <<"a", "l", "r", "i", "g", "h", "t">>, <<"a", "n", "d">>,
    <<"b", "a", "s", "i", "c", "a", "l", "l", "y">>, <<"b", "u", "t">>,
    <<"e", "h">>, <<"e", "r">>, <<"h", "m", "m">>,
    <<"h", "o", "n", "e", "s", "t", "l", "y">>, <<"i">>,
    <<"i", " ", "m", "e", "a", "n">>, <<"k", "i", "n", "d", " ", "o", "f">>,
    <<"l", "e", "t", " ", "m", "e", " ", "t", "h", "i", "n", "k">>,
    <<"l", "e", "t", "'", "s", " ", "s", "e", "e">>, <<"l", "i", "k", "e">>,
    <<"l", "i", "t", "e", "r", "a", "l", "l", "y">>, <<"m", "h", "m">>,
    <<"m", "m">>, <<"n", "o", "w">>, <<"o", "k">>, <<"o", "k", "a", "y">>,
    <<"o", "r">>, <<"r", "i", "g", "h", "t">>, <<"s", "o">>,
    <<"s", "o", "r", "t", " ", "o", "f">>, <<"t", "h", "e">>, <<"u", "h">>,
    <<"u", "h", "-", "h", "u", "h">>, <<"u", "m">>, <<"w", "e", "l", "l">>,
    <<"y", "e", "a", "h">>, <<"y", "e", "p">>,
    <<"y", "o", "u", " ", "k", "n", "o", "w">>
  }

STUTTER_PRONE_WORDS ==
  {
    <<"a">>, <<"a", "n", "d">>, <<"b", "e">>, <<"b", "u", "t">>,
    <<"h", "e">>, <<"i">>, <<"i", "s">>, <<"i", "t">>, <<"s", "h", "e">>,
    <<"t", "h", "a", "t">>, <<"t", "h", "e">>, <<"t", "h", "e", "y">>,
    <<"t", "o">>, <<"w", "a", "s">>, <<"w", "e">>, <<"y", "o", "u">>
  }

QUESTION_WORDS ==
  {
    <<"a", "r", "e">>, <<"c", "a", "n">>, <<"c", "o", "u", "l", "d">>,
    <<"d", "i", "d">>, <<"d", "o">>, <<"d", "o", "e", "s">>,
    <<"h", "o", "w">>, <<"i", "s">>, <<"s", "h", "o", "u", "l", "d">>,
    <<"w", "h", "a", "t">>, <<"w", "h", "e", "n">>,
    <<"w", "h", "e", "r", "e">>, <<"w", "h", "i", "c", "h">>,
    <<"w", "h", "o">>, <<"w", "h", "y">>, <<"w", "o", "u", "l", "d">>
  }

ASSERTION_WORDS ==
  {
    <<"a", "b", "s", "o", "l", "u", "t", "e", "l", "y">>,
    <<"a", "l", "w", "a", "y", "s">>,
    <<"c", "e", "r", "t", "a", "i", "n", "l", "y">>,
    <<"c", "l", "e", "a", "r", "l", "y">>,
    <<"d", "e", "f", "i", "n", "i", "t", "e", "l", "y">>,
    <<"m", "u", "s", "t">>, <<"n", "e", "v", "e", "r">>,
    <<"o", "b", "v", "i", "o", "u", "s", "l", "y">>,
    <<"r", "e", "a", "l", "l", "y">>, <<"s", "u", "r", "e", "l", "y">>,
    <<"w", "i", "l", "l">>
  }

UNCERTAINTY_WORDS ==
  {
    <<"a", "p", "p", "e", "a", "r", "s">>, <<"g", "u", "e", "s", "s">>,
    <<"m", "a", "y">>, <<"m", "a", "y", "b", "e">>,
    <<"m", "i", "g", "h", "t">>, <<"p", "e", "r", "h", "a", "p", "s">>,
    <<"p", "o", "s", "s", "i", "b", "l", "y">>,
    <<"p", "r", "o", "b", "a", "b", "l", "y">>, <<"s", "e", "e", "m">>,
    <<"s", "e", "e", "m", "s">>, <<"s", "u", "p", "p", "o", "s", "e">>,
    <<"t", "h", "i", "n", "k">>
  }


\* ------------------------------------------------------------------------
\* Python value helpers
\* ------------------------------------------------------------------------
None == [none |-> TRUE]

Some(v) == [none |-> FALSE, val |-> v]

\* a numeric field holding None (an unvoiced prosody frame has "pitch": None)
NoneVal == -1

\* the empty dict {}
EmptyDict == [k \in {} |-> 0]

HasKey(d, k) == k \in DOMAIN d

\* d.get(k, default)
Get(d, k, default) == IF k \in DOMAIN d THEN d[k] ELSE default

\* d[k] = v (adds or overwrites the key)
Put(d, k, v) == [x \in (DOMAIN d) \cup {k} |-> IF x = k THEN v ELSE d[x]]

\* s[-n:]
LastN(s, n) == IF Len(s) <= n THEN s ELSE SubSeq(s, Len(s) - n + 1, Len(s))

\* s[a:b] with 0-based Python slice bounds
Slice(s, a, b) ==
  LET hi == IF b < Len(s) THEN b ELSE Len(s)
  IN  IF a >= hi THEN <<>> ELSE SubSeq(s, a + 1, hi)

RECURSIVE SumSeq(_)
SumSeq(s) == IF s = <<>> THEN 0 ELSE Head(s) + SumSeq(Tail(s))

Abs(x) == IF x < 0 THEN -x ELSE x

Max2(a, b) == IF a > b THEN a ELSE b

Min2(a, b) == IF a < b THEN a ELSE b

\* the quotient cut off instead of rounded
RoundDiv_truncates(a, n) == a \div n

\* round(a / n) to the nearest unit, ties to even (Python round())
RoundDiv(a, n) ==
  LET q == a \div n
      r == a % n
  IN  IF 2 * r < n THEN q
      ELSE IF 2 * r > n THEN q + 1
      ELSE IF q % 2 = 0 THEN q ELSE q + 1

\* floor of the square root, by bisection: lo * lo <= n < hi * hi
RECURSIVE SqrtBetween(_, _, _)
SqrtBetween(n, lo, hi) ==
  IF hi - lo <= 1 THEN lo
  ELSE LET mid == (lo + hi) \div 2
       IN  IF mid * mid <= n THEN SqrtBetween(n, mid, hi)
           ELSE SqrtBetween(n, lo, mid)

\* landmark coordinates lie in 0..10000 (normalised to [0, 1]), so the
\* distance between two landmarks is below 20000
ISqrt(n) == SqrtBetween(n, 0, 20000)

\* ------------------------------------------------------------------------
\* Text: str.lower() and str.strip(".,!?;:'\"")
\* ------------------------------------------------------------------------
UpperChars ==
  << "A", "B", "C", "D", "E", "F", "G", "H", "I", "J", "K", "L", "M",
     "N", "O", "P", "Q", "R", "S", "T", "U", "V", "W", "X", "Y", "Z" >>

LowerChars ==
  << "a", "b", "c", "d", "e", "f", "g", "h", "i", "j", "k", "l", "m",
     "n", "o", "p", "q", "r", "s", "t", "u", "v", "w", "x", "y", "z" >>

LowerChar(c) ==
  IF \E k \in 1..Len(UpperChars) : UpperChars[k] = c
  THEN LowerChars[CHOOSE k \in 1..Len(UpperChars) : UpperChars[k] = c]
  ELSE c

Lower(s) == [k \in 1..Len(s) |-> LowerChar(s[k])]

StripChars == {".", ",", "!", "?", ";", ":", "'", "\""}

RECURSIVE LStrip(_)
LStrip(s) ==
  IF s # <<>> /\ Head(s) \in StripChars THEN LStrip(Tail(s)) ELSE s

RECURSIVE RStrip(_)
RStrip(s) ==
  IF s # <<>> /\ s[Len(s)] \in StripChars
  THEN RStrip(SubSeq(s, 1, Len(s) - 1))
  ELSE s

Strip(s) == RStrip(LStrip(s))

\* word_text.lower().strip(".,!?;:'\"")
Normalize(s) == Strip(Lower(s))

\* prev_text.startswith(current_text)
StartsWith(s, p) == Len(p) <= Len(s) /\ SubSeq(s, 1, Len(p)) = p

is_filler_word(word_text) == Normalize(word_text) \in FILLER_WORDS

is_question_word(word_text) == Normalize(word_text) \in QUESTION_WORDS

is_assertion_word(word_text) == Normalize(word_text) \in ASSERTION_WORDS

is_uncertainty_word(word_text) == Normalize(word_text) \in UNCERTAINTY_WORDS

\* ------------------------------------------------------------------------
\* heuristics.py: disfluency detectors
\* Every function that can raise comes as a pair: F_raises(args) is the
\* condition under which the Python code raises (KeyError on a missing
\* key, IndexError on an empty list, TypeError on None), and F(args) is
\* the value it returns otherwise.
\* ------------------------------------------------------------------------
word_duration_raises(word) == IF HasKey(word, "end") THEN ~HasKey(word, "start") ELSE TRUE

word_duration_of(word) == word["end"] - word["start"]

\* previous_words[-1]["text"] fails
prev_text_raises(previous_words) ==
  IF previous_words = <<>> THEN TRUE
  ELSE ~HasKey(previous_words[Len(previous_words)], "text")

detect_stutter_pattern_raises(current_word, previous_words, word_index) ==
  IF word_index = 0 THEN FALSE
  ELSE IF ~HasKey(current_word, "text") THEN TRUE
  ELSE IF word_duration_raises(current_word) THEN TRUE
  ELSE IF word_duration_of(current_word) < VERY_SHORT_WORD
       THEN prev_text_raises(previous_words)
  ELSE IF Normalize(current_word["text"]) \in STUTTER_PRONE_WORDS
       THEN prev_text_raises(previous_words)
  ELSE FALSE

\* the repeated-small-word check left out
detect_stutter_pattern_short_only(current_word, previous_words, word_index) ==
  IF word_index = 0 THEN FALSE
  ELSE
    LET current_text == Normalize(current_word["text"])
        current_duration == word_duration_of(current_word)
    IN  /\ current_duration < VERY_SHORT_WORD
        /\ LET prev_text == Normalize(previous_words[Len(previous_words)]["text"])
           IN  \/ current_text = prev_text
               \/ Len(current_text) <= 3 /\ StartsWith(prev_text, current_text)

detect_stutter_pattern(current_word, previous_words, word_index) ==
  IF word_index = 0 THEN FALSE
  ELSE
    LET current_text == Normalize(current_word["text"])
        current_duration == word_duration_of(current_word)
        prev_text == Normalize(previous_words[Len(previous_words)]["text"])
    IN  \/ /\ current_duration < VERY_SHORT_WORD
           /\ \/ current_text = prev_text
              \/ Len(current_text) <= 3 /\ StartsWith(prev_text, current_text)
        \/ /\ current_text \in STUTTER_PRONE_WORDS
           /\ word_index > 0
           /\ current_text = prev_text

detect_false_start_raises(current_word, next_words, word_index) ==
  IF next_words = <<>> THEN FALSE
  ELSE IF ~HasKey(current_word, "text") THEN TRUE
  ELSE IF word_duration_raises(current_word) THEN TRUE
  ELSE IF /\ word_duration_of(current_word) < 300
          /\ Normalize(current_word["text"]) \in STUTTER_PRONE_WORDS
          /\ Len(next_words) >= 2
       THEN ~HasKey(next_words[1], "text")
  ELSE FALSE

\* one upcoming word taken as enough
detect_false_start_one_next(current_word, next_words, word_index) ==
  IF next_words = <<>> THEN FALSE
  ELSE
    LET current_text == Normalize(current_word["text"])
        current_duration == word_duration_of(current_word)
    IN  /\ current_duration < 300
        /\ current_text \in STUTTER_PRONE_WORDS
        /\ Len(next_words) >= 1
        /\ HasKey(next_words[1], "text")
        /\ is_filler_word(next_words[1]["text"])

detect_false_start(current_word, next_words, word_index) ==
  IF next_words = <<>> THEN FALSE
  ELSE
    LET current_text == Normalize(current_word["text"])
        current_duration == word_duration_of(current_word)
    IN  /\ current_duration < 300
        /\ current_text \in STUTTER_PRONE_WORDS
        /\ Len(next_words) >= 2
        /\ is_filler_word(next_words[1]["text"])

\* ------------------------------------------------------------------------
\* heuristics.py: core heuristic functions (each returns a list of tags)
\* ------------------------------------------------------------------------
analyze_pause_before_word_raises(word, previous_word) ==
  IF DOMAIN previous_word = {} THEN FALSE
  ELSE IF ~HasKey(word, "start") THEN TRUE
  ELSE ~HasKey(previous_word, "end")

\* the boundaries taken as inclusive
analyze_pause_before_word_inclusive(word, previous_word) ==
  IF DOMAIN previous_word = {} THEN <<>>
  ELSE
    LET pause_duration == word["start"] - previous_word["end"]
    IN  IF pause_duration < 0 THEN <<>>
        ELSE IF pause_duration >= VERY_LONG_PAUSE THEN <<"very_long_pause_before">>
        ELSE IF pause_duration >= LONG_PAUSE THEN <<"long_pause_before">>
        ELSE IF pause_duration >= SHORT_PAUSE THEN <<"short_pause_before">>
        ELSE <<>>

analyze_pause_before_word(word, previous_word) ==
  IF DOMAIN previous_word = {} THEN <<>>
  ELSE
    LET pause_duration == word["start"] - previous_word["end"]
    IN  IF pause_duration < 0 THEN <<>>
        ELSE IF pause_duration > VERY_LONG_PAUSE THEN <<"very_long_pause_before">>
        ELSE IF pause_duration > LONG_PAUSE THEN <<"long_pause_before">>
        ELSE IF pause_duration > SHORT_PAUSE THEN <<"short_pause_before">>
        ELSE <<>>

\* mean(b) - mean(a) > t, means taken as exact rationals
MeanDiffGt(b, a, t) ==
  SumSeq(b) * Len(a) - SumSeq(a) * Len(b) > t * Len(a) * Len(b)

\* the overall trend also looked for when fewer than 4 samples are left
analyze_intensity_change_two_ifs(prosody_frames) ==
  IF Len(prosody_frames) < 3 THEN <<>>
  ELSE
    LET kept == SelectSeq(prosody_frames, LAMBDA p : p.intensity # NoneVal)
        intensities == [k \in 1..Len(kept) |-> kept[k].intensity]
        n == Len(intensities)
    IN  IF n < 3 THEN <<>>
        ELSE
          LET spike == \E k \in 2..n :
                         Abs(intensities[k] - intensities[k - 1]) > INTENSITY_SPIKE
              first_half == Slice(intensities, 0, n \div 2)
              second_half == Slice(intensities, n \div 2, n)
          IN  (IF spike THEN <<"intensity_spike">> ELSE <<>>)
              \o (IF n >= 4
                  THEN IF MeanDiffGt(second_half, first_half, INTENSITY_SPIKE)
                       THEN <<"crescendo">>
                       ELSE IF MeanDiffGt(first_half, second_half, INTENSITY_DROP)
                            THEN <<"decrescendo">>
                            ELSE <<>>
                  ELSE IF MeanDiffGt(first_half, second_half, INTENSITY_DROP)
                       THEN <<"decrescendo">>
                       ELSE <<>>)

analyze_intensity_change(prosody_frames) ==
  IF Len(prosody_frames) < 3 THEN <<>>
  ELSE
    LET kept == SelectSeq(prosody_frames, LAMBDA p : p.intensity # NoneVal)
        intensities == [k \in 1..Len(kept) |-> kept[k].intensity]
        n == Len(intensities)
    IN  IF n < 3 THEN <<>>
        ELSE
          LET spike == \E k \in 2..n :
                         Abs(intensities[k] - intensities[k - 1]) > INTENSITY_SPIKE
              first_half == Slice(intensities, 0, n \div 2)
              second_half == Slice(intensities, n \div 2, n)
          IN  (IF spike THEN <<"intensity_spike">> ELSE <<>>)
              \o (IF n >= 4
                  THEN IF MeanDiffGt(second_half, first_half, INTENSITY_SPIKE)
                       THEN <<"crescendo">>
                       ELSE IF MeanDiffGt(first_half, second_half, INTENSITY_DROP)
                            THEN <<"decrescendo">>
                            ELSE <<>>
                  ELSE <<>>)

\* the gesture levels without the `elif` branch of moderate_gesture
analyze_gesture_energy_high_only(wrist_velocity, word_duration) ==
  (IF wrist_velocity > HIGH_GESTURE_ENERGY THEN <<"high_gesture_energy">>
   ELSE <<>>)
  \o (IF word_duration > MINIMAL_WORD_DURATION /\ wrist_velocity < STATIC_HANDS
      THEN <<"static_hands">> ELSE <<>>)

analyze_gesture_energy(wrist_velocity, word_duration) ==
  (IF wrist_velocity > HIGH_GESTURE_ENERGY THEN <<"high_gesture_energy">>
   ELSE IF wrist_velocity > EMPHASIS_GESTURE_COMBO THEN <<"moderate_gesture">>
   ELSE <<>>)
  \o (IF word_duration > MINIMAL_WORD_DURATION /\ wrist_velocity < STATIC_HANDS
      THEN <<"static_hands">> ELSE <<>>)

\* the pacing rules as four separate `if` statements
analyze_vocal_patterns_pacing_ifs(avg_intensity, avg_pitch, word_text, word_duration) ==
  (IF avg_intensity > VOCAL_EMPHASIS THEN <<"strong_vocal_emphasis">>
   ELSE IF avg_intensity > MODERATE_EMPHASIS THEN <<"vocal_emphasis">>
   ELSE <<>>)
  \o (IF avg_intensity < VERY_LOW_INTENSITY THEN <<"very_soft_spoken">>
      ELSE IF avg_intensity < LOW_INTENSITY THEN <<"soft_spoken">>
      ELSE <<>>)
  \o (IF avg_pitch > VERY_HIGH_PITCH * PitchScale THEN <<"very_high_pitch">>
      ELSE IF avg_pitch > HIGH_PITCH * PitchScale THEN <<"high_pitch">>
      ELSE IF avg_pitch > 50 * PitchScale /\ avg_pitch < LOW_PITCH * PitchScale
           THEN <<"low_pitch">>
      ELSE <<>>)
  \o (IF word_duration < VERY_FAST_WORD THEN <<"very_fast">> ELSE <<>>)
  \o (IF word_duration < FAST_WORD THEN <<"fast_paced">> ELSE <<>>)
  \o (IF word_duration > VERY_SLOW_WORD THEN <<"very_slow">> ELSE <<>>)
  \o (IF word_duration > SLOW_WORD THEN <<"slow_deliberate">> ELSE <<>>)
  \o (IF is_filler_word(word_text)
      THEN <<"filler_word">>
           \o (IF avg_intensity < FILLER_WORD_INTENSITY /\ word_duration > 300
               THEN <<"hesitation">> ELSE <<>>)
      ELSE <<>>)
  \o (IF is_question_word(word_text) THEN <<"question_word">> ELSE <<>>)
  \o (IF is_assertion_word(word_text) THEN <<"assertion">> ELSE <<>>)
  \o (IF is_uncertainty_word(word_text) THEN <<"uncertainty_marker">> ELSE <<>>)

analyze_vocal_patterns(avg_intensity, avg_pitch, word_text, word_duration) ==
  (IF avg_intensity > VOCAL_EMPHASIS THEN <<"strong_vocal_emphasis">>
   ELSE IF avg_intensity > MODERATE_EMPHASIS THEN <<"vocal_emphasis">>
   ELSE <<>>)
  \o (IF avg_intensity < VERY_LOW_INTENSITY THEN <<"very_soft_spoken">>
      ELSE IF avg_intensity < LOW_INTENSITY THEN <<"soft_spoken">>
      ELSE <<>>)
  \o (IF avg_pitch > VERY_HIGH_PITCH * PitchScale THEN <<"very_high_pitch">>
      ELSE IF avg_pitch > HIGH_PITCH * PitchScale THEN <<"high_pitch">>
      ELSE IF avg_pitch > 50 * PitchScale /\ avg_pitch < LOW_PITCH * PitchScale
           THEN <<"low_pitch">>
      ELSE <<>>)
  \o (IF word_duration < VERY_FAST_WORD THEN <<"very_fast">>
      ELSE IF word_duration < FAST_WORD THEN <<"fast_paced">>
      ELSE IF word_duration > VERY_SLOW_WORD THEN <<"very_slow">>
      ELSE IF word_duration > SLOW_WORD THEN <<"slow_deliberate">>
      ELSE <<>>)
  \o (IF is_filler_word(word_text)
      THEN <<"filler_word">>
           \o (IF avg_intensity < FILLER_WORD_INTENSITY /\ word_duration > 300
               THEN <<"hesitation">> ELSE <<>>)
      ELSE <<>>)
  \o (IF is_question_word(word_text) THEN <<"question_word">> ELSE <<>>)
  \o (IF is_assertion_word(word_text) THEN <<"assertion">> ELSE <<>>)
  \o (IF is_uncertainty_word(word_text) THEN <<"uncertainty_marker">> ELSE <<>>)

\* np.std(pitches) > t for t >= 0: n * sum(x^2) - sum(x)^2 > t^2 * n^2
StdGt(xs, t) ==
  LET n == Len(xs)
      sq == [k \in 1..n |-> xs[k] * xs[k]]
  IN  n * SumSeq(sq) - SumSeq(xs) * SumSeq(xs) > t * t * n * n

\* the samples filtered with the (50, 2000) band of calculate_prosody_metrics
analyze_pitch_contour_metric_band(prosody_frames) ==
  IF Len(prosody_frames) < 4 THEN <<>>
  ELSE
    LET kept == SelectSeq(prosody_frames,
                          LAMBDA p : p.pitch # NoneVal /\ 50 < p.pitch /\ p.pitch < 2000)
        pitches == [k \in 1..Len(kept) |-> kept[k].pitch]
    IN  IF Len(pitches) < 4 THEN <<>>
        ELSE
          LET pitch_change == pitches[Len(pitches)] - pitches[1]
          IN  (IF pitch_change > PITCH_RISE THEN <<"rising_intonation">> ELSE <<>>)
              \o (IF pitch_change < -PITCH_FALL THEN <<"falling_intonation">> ELSE <<>>)
              \o (IF StdGt(pitches, 40) /\ Len(pitches) > 5
                  THEN <<"pitch_wobble">> ELSE <<>>)

analyze_pitch_contour(prosody_frames) ==
  IF Len(prosody_frames) < 4 THEN <<>>
  ELSE
    LET kept == SelectSeq(prosody_frames,
                          LAMBDA p : p.pitch # NoneVal /\ 70 < p.pitch /\ p.pitch < 800)
        pitches == [k \in 1..Len(kept) |-> kept[k].pitch]
    IN  IF Len(pitches) < 4 THEN <<>>
        ELSE
          LET pitch_change == pitches[Len(pitches)] - pitches[1]
          IN  (IF pitch_change > PITCH_RISE THEN <<"rising_intonation">> ELSE <<>>)
              \o (IF pitch_change < -PITCH_FALL THEN <<"falling_intonation">> ELSE <<>>)
              \o (IF StdGt(pitches, 40) /\ Len(pitches) > 5
                  THEN <<"pitch_wobble">> ELSE <<>>)

\* `if` in place of `elif`: moderate_emphasis checked after strong_emphasis
analyze_multimodal_emphasis_no_elif(wrist_velocity, avg_intensity, avg_pitch) ==
  (IF wrist_velocity > EMPHASIS_GESTURE_COMBO /\ avg_intensity > VOCAL_EMPHASIS
   THEN <<"strong_emphasis">> ELSE <<>>)
  \o (IF wrist_velocity > EMPHASIS_GESTURE_COMBO /\ avg_intensity > MODERATE_EMPHASIS
      THEN <<"moderate_emphasis">> ELSE <<>>)
  \o (IF wrist_velocity > EMPHASIS_GESTURE_COMBO /\ avg_pitch > HIGH_PITCH * PitchScale
      THEN <<"animated">> ELSE <<>>)
  \o (IF avg_pitch > HIGH_PITCH * PitchScale /\ avg_intensity > VOCAL_EMPHASIS
      THEN <<"passionate">> ELSE <<>>)
  \o (IF wrist_velocity < STATIC_HANDS /\ avg_intensity < LOW_INTENSITY
      THEN <<"low_energy">> ELSE <<>>)
  \o (IF wrist_velocity > EMPHASIS_GESTURE_COMBO /\ avg_intensity < LOW_INTENSITY
      THEN <<"searching_for_words">> ELSE <<>>)

analyze_multimodal_emphasis(wrist_velocity, avg_intensity, avg_pitch) ==
  (IF wrist_velocity > EMPHASIS_GESTURE_COMBO /\ avg_intensity > VOCAL_EMPHASIS
   THEN <<"strong_emphasis">>
   ELSE IF wrist_velocity > EMPHASIS_GESTURE_COMBO /\ avg_intensity > MODERATE_EMPHASIS
        THEN <<"moderate_emphasis">>
        ELSE <<>>)
  \o (IF wrist_velocity > EMPHASIS_GESTURE_COMBO /\ avg_pitch > HIGH_PITCH * PitchScale
      THEN <<"animated">> ELSE <<>>)
  \o (IF avg_pitch > HIGH_PITCH * PitchScale /\ avg_intensity > VOCAL_EMPHASIS
      THEN <<"passionate">> ELSE <<>>)
  \o (IF wrist_velocity < STATIC_HANDS /\ avg_intensity < LOW_INTENSITY
      THEN <<"low_energy">> ELSE <<>>)
  \o (IF wrist_velocity > EMPHASIS_GESTURE_COMBO /\ avg_intensity < LOW_INTENSITY
      THEN <<"searching_for_words">> ELSE <<>>)

\* ------------------------------------------------------------------------
\* heuristics.py: confidence score
\* ------------------------------------------------------------------------
\* t in tags
In(t, tags) == \E k \in 1..Len(tags) : tags[k] = t

\* the clamp left out
Clamp_missing(score) == score

\* max(0, min(100, score))
Clamp(score) == Max2(0, Min2(100, score))

\* `if cond: score += delta`
Adjust(score, cond, delta) == IF cond THEN score + delta ELSE score

\* the scorer with the two emphasis tags tested by two `if`s instead of one
\* `or`, so that a word carrying both gets the amount twice
calculate_confidence_score_or_twice(metrics, tags, word_duration) ==
  LET s0 == 50
      s1 == Adjust(s0, In("falling_intonation", tags), 15)
      s2a == Adjust(s1, In("strong_vocal_emphasis", tags), 12)
      s2 == Adjust(s2a, In("vocal_emphasis", tags), 12)
      s3 == Adjust(s2, In("low_pitch", tags), 8)
      s4 == Adjust(s3, In("assertion", tags), 10)
      s5 == Adjust(s4, In("passionate", tags), 8)
      s6 == Adjust(s5, metrics.wrist_velocity > 100 /\ metrics.wrist_velocity < 300, 10)
      s7 == Adjust(s6, metrics.audio_intensity > 450, 10)
      s8 == Adjust(s7, word_duration > 500, 5)
      s9 == Adjust(s8, In("slow_deliberate", tags), 8)
      s10 == Adjust(s9, In("crescendo", tags), 6)
      s11 == Adjust(s10, In("stutter", tags) \/ In("false_start", tags), -25)
      s12 == Adjust(s11, In("hesitation", tags) \/ In("filler_word", tags), -15)
      s13 == Adjust(s12, In("uncertainty_marker", tags), -12)
      s14 == Adjust(s13, In("static_hands", tags) /\ word_duration > 500, -8)
      s15 == Adjust(s14, In("soft_spoken", tags) \/ In("very_soft_spoken", tags), -12)
      s16 == Adjust(s15, In("rising_intonation", tags) /\ ~In("question_word", tags), -7)
      s17 == Adjust(s16, In("pitch_wobble", tags), -10)
      s18 == Adjust(s17, In("low_energy", tags), -15)
      s19 == Adjust(s18, In("searching_for_words", tags), -12)
      s20 == Adjust(s19, In("very_fast", tags), -8)
      s21 == Adjust(s20, In("long_pause_before", tags) \/ In("very_long_pause_before", tags),
                    -10)
      s22 == Adjust(s21, In("decrescendo", tags), -5)
  IN  Clamp(s22)

calculate_confidence_score(metrics, tags, word_duration) ==
  LET s0 == 50
      s1 == Adjust(s0, In("falling_intonation", tags), 15)
      s2 == Adjust(s1, In("strong_vocal_emphasis", tags) \/ In("vocal_emphasis", tags), 12)
      s3 == Adjust(s2, In("low_pitch", tags), 8)
      s4 == Adjust(s3, In("assertion", tags), 10)
      s5 == Adjust(s4, In("passionate", tags), 8)
      s6 == Adjust(s5, metrics.wrist_velocity > 100 /\ metrics.wrist_velocity < 300, 10)
      s7 == Adjust(s6, metrics.audio_intensity > 450, 10)
      s8 == Adjust(s7, word_duration > 500, 5)
      s9 == Adjust(s8, In("slow_deliberate", tags), 8)
      s10 == Adjust(s9, In("crescendo", tags), 6)
      s11 == Adjust(s10, In("stutter", tags) \/ In("false_start", tags), -25)
      s12 == Adjust(s11, In("hesitation", tags) \/ In("filler_word", tags), -15)
      s13 == Adjust(s12, In("uncertainty_marker", tags), -12)
      s14 == Adjust(s13, In("static_hands", tags) /\ word_duration > 500, -8)
      s15 == Adjust(s14, In("soft_spoken", tags) \/ In("very_soft_spoken", tags), -12)
      s16 == Adjust(s15, In("rising_intonation", tags) /\ ~In("question_word", tags), -7)
      s17 == Adjust(s16, In("pitch_wobble", tags), -10)
      s18 == Adjust(s17, In("low_energy", tags), -15)
      s19 == Adjust(s18, In("searching_for_words", tags), -12)
      s20 == Adjust(s19, In("very_fast", tags), -8)
      s21 == Adjust(s20, In("long_pause_before", tags) \/ In("very_long_pause_before", tags),
                    -10)
      s22 == Adjust(s21, In("decrescendo", tags), -5)
  IN  Clamp(s22)

\* ------------------------------------------------------------------------
\* heuristics.py: apply_all_heuristics
\* ------------------------------------------------------------------------
\* list(dict.fromkeys(tags)): drop repeats, keep the first occurrence
RECURSIVE DedupFrom(_, _)
DedupFrom(tags, k) ==
  IF k > Len(tags) THEN <<>>
  ELSE IF \E j \in 1..(k - 1) : tags[j] = tags[k]
       THEN DedupFrom(tags, k + 1)
       ELSE <<tags[k]>> \o DedupFrom(tags, k + 1)

Dedup(tags) == DedupFrom(tags, 1)

apply_all_heuristics_raises(word, metrics, prosody_frames, word_index, previous_words, next_words) ==
  IF word_duration_raises(word) THEN TRUE
  ELSE IF ~HasKey(word, "text") THEN TRUE
  ELSE IF previous_words # <<>>
          /\ analyze_pause_before_word_raises(word,
                                              previous_words[Len(previous_words)])
       THEN TRUE
  ELSE IF detect_stutter_pattern_raises(word, previous_words, word_index) THEN TRUE
  ELSE detect_false_start_raises(word, next_words, word_index)

\* the pause and disfluency tags collected before the analyzers' tags
all_tags_context_first(word, metrics, prosody_frames, word_index, previous_words, next_words) ==
  LET word_duration == word_duration_of(word)
      word_text == word["text"]
      wrist_velocity == metrics.wrist_velocity
      avg_intensity == metrics.audio_intensity
      avg_pitch == metrics.pitch
  IN  Dedup(
        (IF previous_words # <<>>
         THEN analyze_pause_before_word(word, previous_words[Len(previous_words)])
         ELSE <<>>)
        \o (IF detect_stutter_pattern(word, previous_words, word_index)
            THEN <<"stutter">> ELSE <<>>)
        \o (IF detect_false_start(word, next_words, word_index)
            THEN <<"false_start">> ELSE <<>>)
        \o analyze_gesture_energy(wrist_velocity, word_duration)
        \o analyze_vocal_patterns(avg_intensity, avg_pitch, word_text, word_duration)
        \o analyze_pitch_contour(prosody_frames)
        \o analyze_intensity_change(prosody_frames)
        \o analyze_multimodal_emphasis(wrist_velocity, avg_intensity, avg_pitch))

\* the tag list before it is attached to the word
all_tags(word, metrics, prosody_frames, word_index, previous_words, next_words) ==
  LET word_duration == word_duration_of(word)
      word_text == word["text"]
      wrist_velocity == metrics.wrist_velocity
      avg_intensity == metrics.audio_intensity
      avg_pitch == metrics.pitch
  IN  Dedup(
        analyze_gesture_energy(wrist_velocity, word_duration)
        \o analyze_vocal_patterns(avg_intensity, avg_pitch, word_text, word_duration)
        \o analyze_pitch_contour(prosody_frames)
        \o analyze_intensity_change(prosody_frames)
        \o analyze_multimodal_emphasis(wrist_velocity, avg_intensity, avg_pitch)
        \o (IF previous_words # <<>>
            THEN analyze_pause_before_word(word, previous_words[Len(previous_words)])
            ELSE <<>>)
        \o (IF detect_stutter_pattern(word, previous_words, word_index)
            THEN <<"stutter">> ELSE <<>>)
        \o (IF detect_false_start(word, next_words, word_index)
            THEN <<"false_start">> ELSE <<>>))

\* returns {**word, "tags": tags, "confidence_score": confidence}
apply_all_heuristics(word, metrics, prosody_frames, word_index, previous_words, next_words) ==
  LET tags == all_tags(word, metrics, prosody_frames, word_index,
                       previous_words, next_words)
      confidence == calculate_confidence_score(metrics, tags, word_duration_of(word))
  IN  Put(Put(word, "tags", tags), "confidence_score", confidence)

\* ------------------------------------------------------------------------
\* heuristics.py: analyze_sentence_patterns
\* Result units: avg_confidence in tenths (round(x, 1)), speaking_rate in
\* hundredths of a word per second and total_duration in hundredths of a
\* second (round(x, 2)).
\* ------------------------------------------------------------------------
\* `all_tags = w.get("tags", [])` in place of extend: the last word's tags
AllTagsOf_last_word(ws) ==
  IF ws = <<>> THEN <<>> ELSE Get(ws[Len(ws)], "tags", <<>>)

\* all_tags.extend(w.get("tags", [])) over all words
RECURSIVE AllTagsOf(_)
AllTagsOf(ws) ==
  IF ws = <<>> THEN <<>>
  ELSE Get(Head(ws), "tags", <<>>) \o AllTagsOf(Tail(ws))

CountOf(t, tags) == Cardinality({k \in 1..Len(tags) : tags[k] = t})

\* dict.fromkeys(all_tags, 1) in place of Counter: every tag counted once
Counter_fromkeys(tags) ==
  [t \in {tags[k] : k \in 1..Len(tags)} |-> 1]

\* Counter(all_tags): a dict from each tag that occurs to its number of
\* occurrences
Counter(tags) ==
  [t \in {tags[k] : k \in 1..Len(tags)} |-> CountOf(t, tags)]

analyze_sentence_patterns_raises(ws) ==
  IF ws = <<>> THEN FALSE
  ELSE IF HasKey(ws[Len(ws)], "end") THEN ~HasKey(ws[1], "start") ELSE TRUE

\* the emphasis rule chained to the confidence bands with `elif`
analyze_sentence_patterns_chained(ws) ==
  IF ws = <<>> THEN EmptyDict
  ELSE
    LET n == Len(ws)
        conf_sum == SumSeq([k \in 1..n |-> Get(ws[k], "confidence_score", 50)])
        tag_counts == Counter(AllTagsOf(ws))
        cnt(t) == Get(tag_counts, t, 0)
        disfluency_count == cnt("hesitation") + cnt("filler_word")
                            + cnt("stutter") + cnt("false_start")
        emphasis_count == cnt("strong_vocal_emphasis") + cnt("vocal_emphasis")
        fast_count == cnt("very_fast") + cnt("fast_paced")
        slow_count == cnt("very_slow") + cnt("slow_deliberate")
        pause_count == cnt("long_pause_before") + cnt("very_long_pause_before")
        uncertainty_count == cnt("uncertainty_marker")
        patterns ==
          (IF disfluency_count >= 3 THEN <<"frequent_disfluencies">>
           ELSE IF 10 * disfluency_count >= 3 * n THEN <<"some_disfluencies">>
           ELSE <<>>)
          \o (IF 10 * cnt("high_gesture_energy") >= 5 * n THEN <<"highly_animated">>
              ELSE IF 10 * cnt("moderate_gesture") >= 4 * n
                   THEN <<"moderately_animated">>
              ELSE <<>>)
          \o (IF 10 * cnt("static_hands") >= 6 * n THEN <<"minimal_gesture">> ELSE <<>>)
          \o (IF 10 * cnt("low_energy") >= 4 * n THEN <<"low_energy_delivery">> ELSE <<>>)
          \o (IF conf_sum >= 70 * n THEN <<"confident_delivery">>
              ELSE IF conf_sum <= 40 * n THEN <<"uncertain_delivery">>
              ELSE IF 10 * emphasis_count >= 4 * n THEN <<"emphatic_speech">>
              ELSE <<>>)
          \o (IF 10 * fast_count >= 5 * n THEN <<"rapid_speech">>
              ELSE IF 10 * slow_count >= 5 * n THEN <<"deliberate_speech">>
              ELSE <<>>)
          \o (IF pause_count >= 3 THEN <<"frequent_pauses">> ELSE <<>>)
          \o (IF 10 * cnt("passionate") >= 3 * n THEN <<"passionate_delivery">> ELSE <<>>)
          \o (IF 10 * cnt("animated") >= 3 * n THEN <<"animated_delivery">> ELSE <<>>)
          \o (IF uncertainty_count >= 2 THEN <<"shows_uncertainty">> ELSE <<>>)
        fluency_score == Max2(0, 100 - (disfluency_count * 15) - (pause_count * 5))
        total_duration == ws[n]["end"] - ws[1]["start"]
        speaking_rate == IF total_duration > 0
                         THEN RoundDiv(100000 * n, total_duration) ELSE 0
    IN  [avg_confidence |-> RoundDiv(10 * conf_sum, n),
         fluency_score |-> fluency_score,
         disfluency_count |-> disfluency_count,
         speaking_rate |-> speaking_rate,
         tag_distribution |-> tag_counts,
         patterns |-> patterns,
         word_count |-> n,
         total_duration |-> RoundDiv(total_duration, 10)]

analyze_sentence_patterns(ws) ==
  IF ws = <<>> THEN EmptyDict
  ELSE
    LET n == Len(ws)
        conf_sum == SumSeq([k \in 1..n |-> Get(ws[k], "confidence_score", 50)])
        tag_counts == Counter(AllTagsOf(ws))
        cnt(t) == Get(tag_counts, t, 0)
        disfluency_count == cnt("hesitation") + cnt("filler_word")
                            + cnt("stutter") + cnt("false_start")
        emphasis_count == cnt("strong_vocal_emphasis") + cnt("vocal_emphasis")
        fast_count == cnt("very_fast") + cnt("fast_paced")
        slow_count == cnt("very_slow") + cnt("slow_deliberate")
        pause_count == cnt("long_pause_before") + cnt("very_long_pause_before")
        uncertainty_count == cnt("uncertainty_marker")
        patterns ==
          (IF disfluency_count >= 3 THEN <<"frequent_disfluencies">>
           ELSE IF 10 * disfluency_count >= 3 * n THEN <<"some_disfluencies">>
           ELSE <<>>)
          \o (IF 10 * cnt("high_gesture_energy") >= 5 * n THEN <<"highly_animated">>
              ELSE IF 10 * cnt("moderate_gesture") >= 4 * n
                   THEN <<"moderately_animated">>
              ELSE <<>>)
          \o (IF 10 * cnt("static_hands") >= 6 * n THEN <<"minimal_gesture">> ELSE <<>>)
          \o (IF 10 * cnt("low_energy") >= 4 * n THEN <<"low_energy_delivery">> ELSE <<>>)
          \o (IF conf_sum >= 70 * n THEN <<"confident_delivery">>
              ELSE IF conf_sum <= 40 * n THEN <<"uncertain_delivery">>
              ELSE <<>>)
          \o (IF 10 * emphasis_count >= 4 * n THEN <<"emphatic_speech">> ELSE <<>>)
          \o (IF 10 * fast_count >= 5 * n THEN <<"rapid_speech">>
              ELSE IF 10 * slow_count >= 5 * n THEN <<"deliberate_speech">>
              ELSE <<>>)
          \o (IF pause_count >= 3 THEN <<"frequent_pauses">> ELSE <<>>)
          \o (IF 10 * cnt("passionate") >= 3 * n THEN <<"passionate_delivery">> ELSE <<>>)
          \o (IF 10 * cnt("animated") >= 3 * n THEN <<"animated_delivery">> ELSE <<>>)
          \o (IF uncertainty_count >= 2 THEN <<"shows_uncertainty">> ELSE <<>>)
        fluency_score == Max2(0, 100 - (disfluency_count * 15) - (pause_count * 5))
        total_duration == ws[n]["end"] - ws[1]["start"]
        speaking_rate == IF total_duration > 0
                         THEN RoundDiv(100000 * n, total_duration) ELSE 0
    IN  [avg_confidence |-> RoundDiv(10 * conf_sum, n),
         fluency_score |-> fluency_score,
         disfluency_count |-> disfluency_count,
         speaking_rate |-> speaking_rate,
         tag_distribution |-> tag_counts,
         patterns |-> patterns,
         word_count |-> n,
         total_duration |-> RoundDiv(total_duration, 10)]

\* ------------------------------------------------------------------------
\* enricher.py: metric extraction and frame slicing
\* A mean is returned as an exact fraction [num, den]; Round(f) is the
\* round(mean, digits) that enrich_transcript applies to it.
\* ------------------------------------------------------------------------
Frac(num, den) == [num |-> num, den |-> den]

Round(f) == RoundDiv(f.num, f.den)

\* next((lm for lm in pose if lm.get("id") == lm_id), None)
has_lm(pose, lm_id) == \E k \in 1..Len(pose) : Get(pose[k], "id", NoneVal) = lm_id

get_lm(pose, lm_id) ==
  pose[CHOOSE k \in 1..Len(pose) :
         /\ Get(pose[k], "id", NoneVal) = lm_id
         /\ \A j \in 1..(k - 1) : Get(pose[j], "id", NoneVal) # lm_id]

\* np.sqrt((b.x - a.x)**2 + (b.y - a.y)**2), exact on the landmark moves
\* used here, whose squared lengths are perfect squares
lm_dist(a, b) == ISqrt((b.x - a.x) * (b.x - a.x) + (b.y - a.y) * (b.y - a.y))

\* frame pair (i-1, i) counts: both frames have a pose whose first pose has
\* both wrists
valid_pair(vision_frames, i) ==
  LET prev_poses == Get(vision_frames[i - 1], "poses", <<>>)
      curr_poses == Get(vision_frames[i], "poses", <<>>)
  IN  /\ prev_poses # <<>>
      /\ curr_poses # <<>>
      /\ has_lm(prev_poses[1], 15) /\ has_lm(curr_poses[1], 15)
      /\ has_lm(prev_poses[1], 16) /\ has_lm(curr_poses[1], 16)

\* l_dist + r_dist of a valid pair
pair_movement(vision_frames, i) ==
  LET prev == vision_frames[i - 1]["poses"][1]
      curr == vision_frames[i]["poses"][1]
  IN  lm_dist(get_lm(prev, 15), get_lm(curr, 15))
      + lm_dist(get_lm(prev, 16), get_lm(curr, 16))

\* total_movement divided by the number of frame pairs, valid or not
calculate_wrist_velocity_all_pairs(vision_frames) ==
  IF Len(vision_frames) < 2 THEN Frac(0, 1)
  ELSE
    LET valid == {i \in 2..Len(vision_frames) : valid_pair(vision_frames, i)}
        moves == [i \in 2..Len(vision_frames) |->
                    IF i \in valid THEN pair_movement(vision_frames, i) ELSE 0]
        RECURSIVE total(_)
        total(i) == IF i > Len(vision_frames) THEN 0 ELSE moves[i] + total(i + 1)
        frame_count == Len(vision_frames) - 1
    IN  IF frame_count > 0 THEN Frac(total(2), 2 * frame_count) ELSE Frac(0, 1)

\* total_movement / frame_count, total_movement the sum of
\* (l_dist + r_dist) / 2 over the valid pairs
calculate_wrist_velocity(vision_frames) ==
  IF Len(vision_frames) < 2 THEN Frac(0, 1)
  ELSE
    LET valid == {i \in 2..Len(vision_frames) : valid_pair(vision_frames, i)}
        moves == [i \in 2..Len(vision_frames) |->
                    IF i \in valid THEN pair_movement(vision_frames, i) ELSE 0]
        RECURSIVE total(_)
        total(i) == IF i > Len(vision_frames) THEN 0 ELSE moves[i] + total(i + 1)
        frame_count == Cardinality(valid)
    IN  IF frame_count > 0 THEN Frac(total(2), 2 * frame_count) ELSE Frac(0, 1)

\* returns (avg_intensity, avg_pitch)
calculate_prosody_metrics(prosody_frames) ==
  IF prosody_frames = <<>> THEN [intensity |-> Frac(0, 1), pitch |-> Frac(0, 1)]
  ELSE
    LET ikept == SelectSeq(prosody_frames,
                           LAMBDA p : Get(p, "intensity", NoneVal) # NoneVal)
        intensities == [k \in 1..Len(ikept) |-> ikept[k].intensity]
        pkept == SelectSeq(prosody_frames,
                           LAMBDA p : /\ Get(p, "pitch", NoneVal) # NoneVal
                                   /\ 50 < p.pitch /\ p.pitch < 2000)
        pitches == [k \in 1..Len(pkept) |-> pkept[k].pitch]
    IN  [intensity |-> IF intensities # <<>>
                       THEN Frac(SumSeq(intensities), Len(intensities))
                       ELSE Frac(0, 1),
         pitch |-> IF pitches # <<>>
                   THEN Frac(PitchScale * SumSeq(pitches), Len(pitches))
                   ELSE Frac(0, 1)]

\* iterating over None raises TypeError
slice_data_for_word_raises(word, vision_data, prosody_data) ==
  IF vision_data.none THEN TRUE ELSE prosody_data.none

\* the interval taken as half-open: a frame at word.end left out
slice_data_for_word_half_open(word, vision_data, prosody_data) ==
  LET start == Get(word, "start", 0)
      end == Get(word, "end", 0)
      inside(f) == /\ start <= Get(f, "timestamp", -1000)
                   /\ Get(f, "timestamp", -1000) < end
  IN  [vision |-> SelectSeq(vision_data.val, inside),
       prosody |-> SelectSeq(prosody_data.val, inside)]

\* returns (word_vision, word_prosody); a frame without timestamp counts as
\* at -1 s
slice_data_for_word(word, vision_data, prosody_data) ==
  LET start == Get(word, "start", 0)
      end == Get(word, "end", 0)
      inside(f) == /\ start <= Get(f, "timestamp", -1000)
                   /\ Get(f, "timestamp", -1000) <= end
  IN  [vision |-> SelectSeq(vision_data.val, inside),
       prosody |-> SelectSeq(prosody_data.val, inside)]

\* ------------------------------------------------------------------------
\* Inputs
\* The k-th word of a transcript lies in the k-th slot of SlotLen ms; the
\* frame lists repeat one slot's frames in every slot.
\* ------------------------------------------------------------------------
MaxWords == 3

SlotLen == 2000

\* the words a transcript may hold in the slot that starts at base:
\* well-formed words of several texts, durations and gaps, and words
\* lacking start, end or text
WordChoices(base) ==
  { [text |-> <<"I">>, start |-> base, end |-> base + 100],
    [text |-> <<"u", "m">>, start |-> base, end |-> base + 500],
    [text |-> <<"D", "e", "f", "i", "n", "i", "t", "e", "l", "y", ".">>,
     start |-> base + 1000, end |-> base + 1900],
    [text |-> <<"m", "a", "y", "b", "e">>, start |-> base, end |-> base + 2100],
    [text |-> <<"s", "o">>, end |-> base + 600],
    [text |-> <<"t", "h", "e">>, start |-> base],
    [start |-> base, end |-> base + 600] }

\* word lists of exactly n words, in chronological order
RECURSIVE WordLists(_)
WordLists(n) ==
  IF n = 0 THEN {<<>>}
  ELSE {Append(ws, w) : ws \in WordLists(n - 1),
                        w \in WordChoices((n - 1) * SlotLen)}

TranscriptChoices ==
  {EmptyDict} \cup {[words |-> ws] : ws \in UNION {WordLists(n) : n \in 0..MaxWords}}

Landmark(id, x, y) == [id |-> id, x |-> x, y |-> y]

\* one slot of vision frames: wrists moving, a frame without a pose, and a
\* pose without the right wrist
VisionSlot(base) ==
  << [timestamp |-> base,
      poses |-> << <<Landmark(0, 5000, 3000), Landmark(15, 5000, 5000),
                     Landmark(16, 6000, 5000)>> >>],
     [timestamp |-> base + 50,
      poses |-> << <<Landmark(15, 5120, 5160), Landmark(16, 6000, 5200)>> >>],
     [timestamp |-> base + 100,
      poses |-> << <<Landmark(15, 5300, 5400), Landmark(16, 6000, 5300)>> >>],
     [timestamp |-> base + 500, poses |-> <<>>],
     [timestamp |-> base + 1000,
      poses |-> << <<Landmark(15, 5300, 5400), Landmark(16, 6000, 5300)>> >>],
     [timestamp |-> base + 1300,
      poses |-> << <<Landmark(15, 5330, 5440), Landmark(16, 6000, 5300)>> >>],
     [timestamp |-> base + 1800,
      poses |-> << <<Landmark(15, 5330, 5440), Landmark(16, 6000, 5300)>> >>],
     [timestamp |-> base + 2000,
      poses |-> << <<Landmark(15, 5630, 5840)>> >>] >>

ProsodyFrame(t, pitch, intensity) ==
  [timestamp |-> t, pitch |-> pitch, intensity |-> intensity]

\* one slot of prosody frames: a rising loud start, an unvoiced frame, a
\* low quiet stretch and a high-pitched loud end
ProsodySlot(base) ==
  << ProsodyFrame(base, 200, 400),
     ProsodyFrame(base + 25, 220, 450),
     ProsodyFrame(base + 50, NoneVal, 500),
     ProsodyFrame(base + 75, 250, 850),
     ProsodyFrame(base + 100, 270, 900),
     ProsodyFrame(base + 300, 100, 100),
     ProsodyFrame(base + 500, 90, 100),
     ProsodyFrame(base + 1000, 400, 700),
     ProsodyFrame(base + 1200, 420, 720),
     ProsodyFrame(base + 1500, 380, 690),
     ProsodyFrame(base + 1800, 410, 710) >>

RECURSIVE VisionSlots(_)
VisionSlots(n) ==
  IF n = 0 THEN <<>> ELSE VisionSlots(n - 1) \o VisionSlot((n - 1) * SlotLen)

RECURSIVE ProsodySlots(_)
ProsodySlots(n) ==
  IF n = 0 THEN <<>> ELSE ProsodySlots(n - 1) \o ProsodySlot((n - 1) * SlotLen)

VisionChoices == {None, Some(<<>>), Some(VisionSlots(MaxWords))}

ProsodyChoices == {None, Some(<<>>), Some(ProsodySlots(MaxWords))}

\* ------------------------------------------------------------------------
\* enricher.py: enrich_transcript as a state machine
\*   pc = "start"     the call has been made, nothing has run
\*   pc = "loop"      inside `for i, word in enumerate(words)`, about to
\*                    process words[i] (0-based i), or to leave the loop
\*                    when i = len(words)
\*   pc = "done"      the function has returned `report`
\*   pc = "raised"    an exception has left the function
\* ------------------------------------------------------------------------
VARIABLES
  transcript_data,  \* the transcript dict; its words are mutated in place
  vision_data,      \* None or Some(list of vision frames)
  prosody_data,     \* None or Some(list of prosody frames)
  pc,
  i,                \* loop index
  enriched_words,   \* the list of enriched words built by the loop
  report,           \* the returned dict (EmptyDict until the return)
  failed,           \* history: the indices whose processing raised
  fn,               \* a function called on its own, or "enrich_transcript"
                    \* once a first call of it has ended
  fn_args,          \* its arguments
  fn_pc,            \* "idle", "called", "returned" or "raised"
  fn_result,        \* its return value (NoneVal until it returns)
  JOB_STATUS_DB,    \* main.py: the in-memory job store, job_id -> job
  upload,           \* main.py: the upload_video call in progress, if any
  modal_calls,      \* the remote vision calls, modal_id -> state
  modal_lookup,     \* whether modal.FunctionCall.from_id succeeds
  response,         \* the last HTTP response sent
  enrich_calls      \* history: job_id -> number of calls of enrich_transcript

vars == <<transcript_data, vision_data, prosody_data, pc, i, enriched_words,
          report, failed, fn, fn_args, fn_pc, fn_result, JOB_STATUS_DB, upload,
          modal_calls, modal_lookup, response, enrich_calls>>

enrich_vars == <<transcript_data, vision_data, prosody_data, pc, i,
                 enriched_words, report, failed>>

fn_vars == <<fn, fn_args, fn_pc, fn_result>>

job_vars == <<JOB_STATUS_DB, upload, modal_calls, modal_lookup, response, enrich_calls>>

\* the server of main.py before its first request: no job, no handler running
IdleJobs ==
  /\ JOB_STATUS_DB = EmptyDict
  /\ upload = [pc |-> "idle"]
  /\ modal_calls = EmptyDict
  /\ modal_lookup = "ok"
  /\ response = EmptyDict
  /\ enrich_calls = EmptyDict

\* words = transcript_data.get("words", [])
words == Get(transcript_data, "words", <<>>)

ZeroMetrics == [wrist_velocity |-> 0, audio_intensity |-> 0, pitch |-> 0]

Init ==
  /\ transcript_data \in TranscriptChoices
  /\ vision_data \in VisionChoices
  /\ prosody_data \in ProsodyChoices
  /\ pc = "start"
  /\ i = 0
  /\ enriched_words = <<>>
  /\ report = EmptyDict
  /\ failed = {}
  /\ fn = "none"
  /\ fn_args = EmptyDict
  /\ fn_pc = "idle"
  /\ fn_result = NoneVal
  /\ IdleJobs

\* the report of the early return on an empty word list
EmptyReport ==
  [words |-> <<>>,
   sentence_analysis |->
     [avg_confidence |-> 0,
      fluency_score |-> 0,
      disfluency_count |-> 0,
      tag_distribution |-> EmptyDict,
      patterns |-> <<>>,
      word_count |-> 0,
      total_duration |-> 0]]

\* `if not words: return {...}`
ReturnEmpty ==
  /\ pc = "start"
  /\ words = <<>>
  /\ report' = EmptyReport
  /\ pc' = "done"
  /\ UNCHANGED <<transcript_data, vision_data, prosody_data, i, enriched_words,
                 failed, fn_vars, job_vars>>

\* `enriched_words = []` and entry into the loop
EnterLoop ==
  /\ pc = "start"
  /\ words # <<>>
  /\ enriched_words' = <<>>
  /\ i' = 0
  /\ pc' = "loop"
  /\ UNCHANGED <<transcript_data, vision_data, prosody_data, report, failed,
                 fn_vars, job_vars>>

\* the context handed to apply_all_heuristics for words[idx]
previous_words_at(idx) == LastN(enriched_words, 3)

\* the slice taken from the current word: words[i:i+3]
next_words_at_from_current(idx) ==
  IF idx + 1 < Len(words) THEN Slice(words, idx, idx + 3) ELSE <<>>

next_words_at(idx) ==
  IF idx + 1 < Len(words) THEN Slice(words, idx + 1, idx + 4) ELSE <<>>

\* word["metrics"] of the try block (defined when the slicing does not raise)
metrics_of(word) ==
  LET sl == slice_data_for_word(word, vision_data, prosody_data)
      avg_velocity == calculate_wrist_velocity(sl.vision)
      pm == calculate_prosody_metrics(sl.prosody)
  IN  [wrist_velocity |-> Round(avg_velocity),
       audio_intensity |-> Round(pm.intensity),
       pitch |-> Round(pm.pitch)]

\* some statement of the try block raises for words[idx]
try_raises(idx) ==
  LET word == words[idx + 1]
  IN  IF slice_data_for_word_raises(word, vision_data, prosody_data) THEN TRUE
      ELSE apply_all_heuristics_raises(
             Put(word, "metrics", metrics_of(word)),
             metrics_of(word),
             slice_data_for_word(word, vision_data, prosody_data).prosody,
             idx, previous_words_at(idx), next_words_at(idx))

\* one iteration of the loop whose try block completes
EnrichWord ==
  /\ pc = "loop"
  /\ i < Len(words)
  /\ ~try_raises(i)
  /\ LET word == Put(words[i + 1], "metrics", metrics_of(words[i + 1]))
         word_prosody == slice_data_for_word(words[i + 1], vision_data,
                                             prosody_data).prosody
         enriched_word == apply_all_heuristics(word, word["metrics"], word_prosody,
                                               i, previous_words_at(i),
                                               next_words_at(i))
     IN  /\ transcript_data' =
              [transcript_data EXCEPT !["words"] = [@ EXCEPT ![i + 1] = word]]
         /\ enriched_words' = Append(enriched_words, enriched_word)
  /\ i' = i + 1
  /\ UNCHANGED <<vision_data, prosody_data, pc, report, failed, fn_vars, job_vars>>

\* the except block attaching an empty tag list
fallback_word_empty_tags(word) ==
  Put(Put(Put(word, "metrics", ZeroMetrics), "tags", <<>>), "confidence_score", 50)

\* the except block appending "error" to the tags the word already has
fallback_word_appends_error(word) ==
  Put(Put(Put(word, "metrics", ZeroMetrics),
          "tags", Get(word, "tags", <<>>) \o <<"error">>),
      "confidence_score", 50)

\* the word left by the except block
fallback_word(word) ==
  Put(Put(Put(word, "metrics", ZeroMetrics), "tags", <<"error">>),
      "confidence_score", 50)

\* one iteration of the loop that ends in `except Exception`
EnrichWordFails ==
  /\ pc = "loop"
  /\ i < Len(words)
  /\ try_raises(i)
  /\ LET word == fallback_word(words[i + 1])
     IN  /\ transcript_data' =
              [transcript_data EXCEPT !["words"] = [@ EXCEPT ![i + 1] = word]]
         /\ enriched_words' = Append(enriched_words, word)
  /\ failed' = failed \cup {i}
  /\ i' = i + 1
  /\ UNCHANGED <<vision_data, prosody_data, pc, report, fn_vars, job_vars>>

\* step 5 left out: the enriched word returned as it is
stripped_keeps_fields(word) == word

\* step 5: the public schema of one word
stripped(word) ==
  [text |-> Get(word, "text", <<>>),
   tags |-> Get(word, "tags", <<>>),
   confidence_score |-> Get(word, "confidence_score", 50)]

\* after the loop: sentence-level analysis, stripping, return
Finish ==
  /\ pc = "loop"
  /\ i = Len(words)
  /\ ~analyze_sentence_patterns_raises(enriched_words)
  /\ report' =
       [words |-> [k \in 1..Len(enriched_words) |-> stripped(enriched_words[k])],
        sentence_analysis |-> analyze_sentence_patterns(enriched_words)]
  /\ pc' = "done"
  /\ UNCHANGED <<transcript_data, vision_data, prosody_data, i, enriched_words,
                 failed, fn_vars, job_vars>>

\* after the loop: analyze_sentence_patterns raises, outside any try block
FinishRaises ==
  /\ pc = "loop"
  /\ i = Len(words)
  /\ analyze_sentence_patterns_raises(enriched_words)
  /\ pc' = "raised"
  /\ UNCHANGED <<transcript_data, vision_data, prosody_data, i, enriched_words,
                 report, failed, fn_vars, job_vars>>

Next ==
  \/ ReturnEmpty
  \/ EnterLoop
  \/ EnrichWord
  \/ EnrichWordFails
  \/ Finish
  \/ FinishRaises

Spec == Init /\ [][Next]_vars

\* ------------------------------------------------------------------------
\* enrich_transcript called a second time on the same transcript object,
\* whose word dicts the first call changed in place (word["metrics"], and
\* word["tags"] and word["confidence_score"] in the except block), with the
\* same frame lists. fn, fn_pc and fn_result keep how the first call ended.
\* ------------------------------------------------------------------------
CallAgain ==
  /\ pc \in {"done", "raised"}
  /\ fn = "none"
  /\ fn' = "enrich_transcript"
  /\ fn_args' = EmptyDict
  /\ fn_pc' = IF pc = "done" THEN "returned" ELSE "raised"
  /\ fn_result' = report
  /\ pc' = "start"
  /\ i' = 0
  /\ enriched_words' = <<>>
  /\ report' = EmptyDict
  /\ failed' = {}
  /\ UNCHANGED <<transcript_data, vision_data, prosody_data, job_vars>>

NextRerun == Next \/ CallAgain

SpecRerun == Init /\ [][NextRerun]_vars

\* ------------------------------------------------------------------------
\* calculate_confidence_score called on its own, on every tag list of at
\* most MaxTags of the tags below and metrics and durations on both sides
\* of the scorer's cut-offs
\* ------------------------------------------------------------------------
MaxTags == 3

\* the tags calculate_confidence_score looks at, and one it ignores
ScoreTagOrder ==
  << "falling_intonation", "strong_vocal_emphasis", "vocal_emphasis",
     "low_pitch", "assertion", "passionate", "slow_deliberate", "crescendo",
     "stutter", "false_start", "hesitation", "filler_word",
     "uncertainty_marker", "static_hands", "soft_spoken", "very_soft_spoken",
     "rising_intonation", "question_word", "pitch_wobble", "low_energy",
     "searching_for_words", "very_fast", "long_pause_before",
     "very_long_pause_before", "decrescendo", "high_gesture_energy" >>

ScoreTags == {ScoreTagOrder[k] : k \in 1..Len(ScoreTagOrder)}

\* the sets of at most n tags
RECURSIVE TagSets(_)
TagSets(n) ==
  IF n = 0 THEN {{}}
  ELSE TagSets(n - 1) \cup {S \cup {t} : S \in TagSets(n - 1), t \in ScoreTags}

\* a tag set as a list
TagList(S) == SelectSeq(ScoreTagOrder, LAMBDA t : t \in S)

ScoreInputs ==
  { [metrics |-> [wrist_velocity |-> wv, audio_intensity |-> ai, pitch |-> 0],
     tags |-> TagList(S),
     word_duration |-> d] :
    S \in TagSets(MaxTags), wv \in {100, 200}, ai \in {450, 500}, d \in {500, 600} }

IdleEnrich ==
  /\ IdleJobs
  /\ transcript_data = EmptyDict
  /\ vision_data = None
  /\ prosody_data = None
  /\ pc = "idle"
  /\ i = 0
  /\ enriched_words = <<>>
  /\ report = EmptyDict
  /\ failed = {}

InitScore ==
  /\ IdleEnrich
  /\ fn = "calculate_confidence_score"
  /\ fn_args \in ScoreInputs
  /\ fn_pc = "called"
  /\ fn_result = NoneVal

ScoreReturns ==
  /\ fn = "calculate_confidence_score"
  /\ fn_pc = "called"
  /\ fn_result' = calculate_confidence_score(fn_args.metrics, fn_args.tags,
                                             fn_args.word_duration)
  /\ fn_pc' = "returned"
  /\ UNCHANGED <<enrich_vars, job_vars, fn, fn_args>>

NextScore == ScoreReturns

SpecScore == InitScore /\ [][NextScore]_vars

\* ------------------------------------------------------------------------
\* analyze_sentence_patterns called on its own, on every list of at most
\* MaxWords enriched words (the empty list included)
\* ------------------------------------------------------------------------
EnrichedChoices(base) ==
  { [text |-> <<"I">>, start |-> base, end |-> base + 100,
     tags |-> <<"very_fast", "filler_word", "stutter">>,
     confidence_score |-> 10],
    [text |-> <<"u", "m">>, start |-> base, end |-> base + 500,
     tags |-> <<"filler_word", "hesitation", "long_pause_before">>,
     confidence_score |-> 30],
    [text |-> <<"r", "e", "a", "l", "l", "y">>, start |-> base + 1000,
     end |-> base + 1900,
     tags |-> <<"high_gesture_energy", "strong_vocal_emphasis", "slow_deliberate",
                "assertion", "passionate", "animated">>,
     confidence_score |-> 100],
    [text |-> <<"m", "a", "y", "b", "e">>, start |-> base, end |-> base,
     tags |-> <<"static_hands", "very_soft_spoken", "uncertainty_marker",
                "low_energy", "very_long_pause_before">>,
     confidence_score |-> 40],
    [text |-> <<"s", "o">>, end |-> base + 600, metrics |-> ZeroMetrics,
     tags |-> <<"error">>, confidence_score |-> 50],
    [text |-> <<"t", "h", "e">>, start |-> base, metrics |-> ZeroMetrics,
     tags |-> <<"error">>, confidence_score |-> 50],
    [text |-> <<"o", "k">>, start |-> base, end |-> base + 600],
    [text |-> <<"w", "e">>, start |-> base, end |-> base + 400,
     tags |-> <<"moderate_gesture", "strong_vocal_emphasis", "very_slow",
                "strong_emphasis", "long_pause_before">>,
     confidence_score |-> 85] }

RECURSIVE EnrichedLists(_)
EnrichedLists(n) ==
  IF n = 0 THEN {<<>>}
  ELSE {Append(ws, w) : ws \in EnrichedLists(n - 1),
                        w \in EnrichedChoices((n - 1) * SlotLen)}

InitAggregate ==
  /\ IdleEnrich
  /\ fn = "analyze_sentence_patterns"
  /\ fn_args \in {[words |-> ws] : ws \in UNION {EnrichedLists(n) : n \in 0..MaxWords}}
  /\ fn_pc = "called"
  /\ fn_result = NoneVal

AggregateReturns ==
  /\ fn = "analyze_sentence_patterns"
  /\ fn_pc = "called"
  /\ ~analyze_sentence_patterns_raises(fn_args.words)
  /\ fn_result' = analyze_sentence_patterns(fn_args.words)
  /\ fn_pc' = "returned"
  /\ UNCHANGED <<enrich_vars, job_vars, fn, fn_args>>

AggregateRaises ==
  /\ fn = "analyze_sentence_patterns"
  /\ fn_pc = "called"
  /\ analyze_sentence_patterns_raises(fn_args.words)
  /\ fn_pc' = "raised"
  /\ UNCHANGED <<enrich_vars, job_vars, fn, fn_args, fn_result>>

NextAggregate == AggregateReturns \/ AggregateRaises

SpecAggregate == InitAggregate /\ [][NextAggregate]_vars

\* ------------------------------------------------------------------------
\* apply_all_heuristics called on its own, as the loop of enrich_transcript
\* calls it: the word carries its metrics, the metrics are those of the
\* word's frames, word_index is the number of earlier words, previous_words
\* are enriched (or fallen-back) words and next_words are raw words
\* ------------------------------------------------------------------------
MaxContext == 1

TaggerStart == 10000

TaggerTexts ==
  { <<"I">>, <<"i", ",">>, <<"t", "h">>, <<"u", "m">>, <<"h", "e", "l", "l">>,
    <<"t", "h", "e">> }

\* durations on both sides of VERY_SHORT_WORD (150), of the 0.3 s cut-off of
\* detect_false_start and of MINIMAL_WORD_DURATION (500)
TaggerDurations == {100, 150, 200, 300, 600}

PreviousTexts ==
  { <<"I">>, <<"I", "t">>, <<"T", "h", "e", ".">>, <<"u", "m">>,
    <<"h", "e", "l", "l", "o">> }

\* gaps between the previous word's end and the word's start, on both sides
\* of SHORT_PAUSE, LONG_PAUSE and VERY_LONG_PAUSE, and an overlap
TaggerGaps == {-100, 0, 300, 301, 800, 801, 1500, 1501}

\* an enriched previous word ending `gap` ms before the word starts
PreviousWord(text, gap) ==
  [text |-> text, start |-> TaggerStart - gap - 200, end |-> TaggerStart - gap,
   metrics |-> ZeroMetrics, tags |-> <<"fast_paced">>, confidence_score |-> 50]

\* previous words: enriched words, and words left by the except block that
\* lack end or text
PreviousChoices ==
  {PreviousWord(t, g) : t \in PreviousTexts, g \in TaggerGaps}
  \cup {fallback_word([text |-> <<"t", "h", "e">>, start |-> TaggerStart - 500]),
        fallback_word([start |-> TaggerStart - 500, end |-> TaggerStart - 400])}

\* enriched_words[-3:] with at most n earlier words
RECURSIVE PreviousLists(_)
PreviousLists(n) ==
  IF n = 0 THEN {<<>>}
  ELSE {<<>>}
       \cup {<<p>> : p \in PreviousChoices}
       \cup {<<PreviousWord(<<"w", "e">>, 0)>> \o ps : ps \in PreviousLists(n - 1) \ {<<>>}}

RawWord(text, k) ==
  [text |-> text, start |-> TaggerStart + k * SlotLen,
   end |-> TaggerStart + k * SlotLen + 400]

\* words[i+1:i+4]: no word, one word, and two or three words led by a
\* filler word, by another word or by a word without text
NextChoices ==
  { <<>>,
    <<RawWord(<<"u", "m">>, 1)>>,
    <<RawWord(<<"U", "h", ",">>, 1), RawWord(<<"I">>, 2)>>,
    <<RawWord(<<"w", "e">>, 1), RawWord(<<"u", "m">>, 2)>>,
    <<RawWord(<<"u", "m">>, 1), RawWord(<<"I">>, 2), RawWord(<<"w", "e">>, 3)>>,
    <<[start |-> TaggerStart + SlotLen, end |-> TaggerStart + SlotLen + 400],
      RawWord(<<"I">>, 2)>> }

\* the word's vision frames: none, and wrists moving between three frames
TaggerVision == {<<>>, SubSeq(VisionSlot(TaggerStart), 1, 3)}

\* the word's prosody frames: none, a rising loud stretch and a low quiet
\* one
TaggerProsody ==
  { <<>>,
    SubSeq(ProsodySlot(TaggerStart), 1, 5),
    << ProsodyFrame(TaggerStart, 100, 100), ProsodyFrame(TaggerStart + 50, 90, 100) >> }

\* word["metrics"] as the try block computes it from the word's frames
frame_metrics(word_vision, word_prosody) ==
  LET pm == calculate_prosody_metrics(word_prosody)
  IN  [wrist_velocity |-> Round(calculate_wrist_velocity(word_vision)),
       audio_intensity |-> Round(pm.intensity),
       pitch |-> Round(pm.pitch)]

TaggerInputs ==
  { [word |-> [text |-> t, start |-> TaggerStart, end |-> TaggerStart + d,
               metrics |-> frame_metrics(wv, wp)],
     metrics |-> frame_metrics(wv, wp),
     prosody_frames |-> wp,
     word_index |-> Len(ps),
     previous_words |-> ps,
     next_words |-> ns] :
    t \in TaggerTexts, d \in TaggerDurations, wv \in TaggerVision,
    wp \in TaggerProsody, ps \in PreviousLists(MaxContext), ns \in NextChoices }

InitTagger ==
  /\ IdleEnrich
  /\ fn = "apply_all_heuristics"
  /\ fn_args \in TaggerInputs
  /\ fn_pc = "called"
  /\ fn_result = NoneVal

TaggerReturns ==
  /\ fn = "apply_all_heuristics"
  /\ fn_pc = "called"
  /\ ~apply_all_heuristics_raises(fn_args.word, fn_args.metrics,
                                  fn_args.prosody_frames, fn_args.word_index,
                                  fn_args.previous_words, fn_args.next_words)
  /\ fn_result' = apply_all_heuristics(fn_args.word, fn_args.metrics,
                                       fn_args.prosody_frames, fn_args.word_index,
                                       fn_args.previous_words, fn_args.next_words)
  /\ fn_pc' = "returned"
  /\ UNCHANGED <<enrich_vars, job_vars, fn, fn_args>>

TaggerRaises ==
  /\ fn = "apply_all_heuristics"
  /\ fn_pc = "called"
  /\ apply_all_heuristics_raises(fn_args.word, fn_args.metrics,
                                 fn_args.prosody_frames, fn_args.word_index,
                                 fn_args.previous_words, fn_args.next_words)
  /\ fn_pc' = "raised"
  /\ UNCHANGED <<enrich_vars, job_vars, fn, fn_args, fn_result>>

NextTagger == TaggerReturns \/ TaggerRaises

SpecTagger == InitTagger /\ [][NextTagger]_vars

\* ------------------------------------------------------------------------
\* slice_data_for_word called on its own: two touching words, a word of
\* zero length and a word without start and end, and frame lists that are
\* None, empty or a stretch of the frames below
\* ------------------------------------------------------------------------
SliceWords ==
  { [text |-> <<"I">>, start |-> 1000, end |-> 1500],
    [text |-> <<"u", "m">>, start |-> 1500, end |-> 2000],
    [text |-> <<"s", "o">>, start |-> 1000, end |-> 1000],
    [text |-> <<"t", "h", "e">>] }

\* frames 1 ms before a word's start, at its start, inside, at its end (the
\* start of the next word), 1 ms after, and a frame without timestamp
SliceVision ==
  << [timestamp |-> 0, poses |-> <<>>],
     [timestamp |-> 999, poses |-> <<>>],
     [timestamp |-> 1000, poses |-> << <<Landmark(15, 5000, 5000)>> >>],
     [timestamp |-> 1250, poses |-> <<>>],
     [timestamp |-> 1500, poses |-> << <<Landmark(16, 6000, 5000)>> >>],
     [timestamp |-> 1501, poses |-> <<>>],
     [poses |-> <<>>],
     [timestamp |-> 2000, poses |-> <<>>] >>

SliceProsody ==
  << ProsodyFrame(999, 200, 400),
     ProsodyFrame(1000, 210, 410),
     ProsodyFrame(1500, NoneVal, 420),
     ProsodyFrame(2001, 230, 430) >>

\* None, and every contiguous stretch of the frame list (the empty one
\* included)
Stretches(frames) ==
  {None, Some(<<>>)}
  \cup {Some(SubSeq(frames, a, b)) : a \in 1..Len(frames), b \in 1..Len(frames)}

InitSlice ==
  /\ IdleEnrich
  /\ fn = "slice_data_for_word"
  /\ fn_args \in {[word |-> w, vision_data |-> v, prosody_data |-> p] :
                    w \in SliceWords, v \in Stretches(SliceVision),
                    p \in {None, Some(<<>>), Some(SliceProsody)}}
  /\ fn_pc = "called"
  /\ fn_result = NoneVal

SliceReturns ==
  /\ fn = "slice_data_for_word"
  /\ fn_pc = "called"
  /\ ~slice_data_for_word_raises(fn_args.word, fn_args.vision_data,
                                 fn_args.prosody_data)
  /\ fn_result' = slice_data_for_word(fn_args.word, fn_args.vision_data,
                                      fn_args.prosody_data)
  /\ fn_pc' = "returned"
  /\ UNCHANGED <<enrich_vars, job_vars, fn, fn_args>>

SliceRaises ==
  /\ fn = "slice_data_for_word"
  /\ fn_pc = "called"
  /\ slice_data_for_word_raises(fn_args.word, fn_args.vision_data,
                                fn_args.prosody_data)
  /\ fn_pc' = "raised"
  /\ UNCHANGED <<enrich_vars, job_vars, fn, fn_args, fn_result>>

NextSlice == SliceReturns \/ SliceRaises

SpecSlice == InitSlice /\ [][NextSlice]_vars

\* ------------------------------------------------------------------------
\* analyze_multimodal_emphasis called on its own, on metrics below, at and
\* above each threshold it compares with (wrist_velocity and
\* audio_intensity in 1e-4, pitch in 0.01 Hz)
\* ------------------------------------------------------------------------
EmphasisInputs ==
  { [wrist_velocity |-> wv, audio_intensity |-> ai, pitch |-> p] :
    wv \in {0, 49, 50, 100, 150, 151, 250},
    ai \in {0, 349, 350, 400, 500, 501, 650, 651, 900},
    p \in {0, 35000, 35001, 45000} }

InitEmphasis ==
  /\ IdleEnrich
  /\ fn = "analyze_multimodal_emphasis"
  /\ fn_args \in EmphasisInputs
  /\ fn_pc = "called"
  /\ fn_result = NoneVal

EmphasisReturns ==
  /\ fn = "analyze_multimodal_emphasis"
  /\ fn_pc = "called"
  /\ fn_result' = analyze_multimodal_emphasis(fn_args.wrist_velocity,
                                              fn_args.audio_intensity, fn_args.pitch)
  /\ fn_pc' = "returned"
  /\ UNCHANGED <<enrich_vars, job_vars, fn, fn_args>>

NextEmphasis == EmphasisReturns

SpecEmphasis == InitEmphasis /\ [][NextEmphasis]_vars

\* ------------------------------------------------------------------------
\* The loop of enrich_transcript over transcripts of up to MaxLoopWords
\* words, each a well-formed word or a word without end, with empty frame
\* lists: long enough for enriched_words[-3:] and words[i+1:i+4] to cut
\* the lists
\* ------------------------------------------------------------------------
MaxLoopWords == 5

LoopWordChoices(base) ==
  { [text |-> <<"I">>, start |-> base, end |-> base + 100],
    [text |-> <<"t", "h", "e">>, start |-> base] }

RECURSIVE LoopWordLists(_)
LoopWordLists(n) ==
  IF n = 0 THEN {<<>>}
  ELSE {Append(ws, w) : ws \in LoopWordLists(n - 1),
                        w \in LoopWordChoices((n - 1) * SlotLen)}

InitLoop ==
  /\ transcript_data \in
       {[words |-> ws] : ws \in UNION {LoopWordLists(n) : n \in 0..MaxLoopWords}}
  /\ vision_data = Some(<<>>)
  /\ prosody_data = Some(<<>>)
  /\ pc = "start"
  /\ i = 0
  /\ enriched_words = <<>>
  /\ report = EmptyDict
  /\ failed = {}
  /\ fn = "none"
  /\ fn_args = EmptyDict
  /\ fn_pc = "idle"
  /\ fn_result = NoneVal
  /\ IdleJobs

SpecLoop == InitLoop /\ [][Next]_vars

\* ------------------------------------------------------------------------
\* apply_all_heuristics called on a first word whose metrics and duration
\* lie on both sides of every threshold of the gesture, vocal and
\* cross-modal analyzers
\* ------------------------------------------------------------------------
FamilyTexts == { <<"u", "m">>, <<"t", "h", "e">> }

\* VERY_FAST_WORD, FAST_WORD, the 0.3 s of hesitation, MINIMAL_WORD_DURATION,
\* SLOW_WORD and VERY_SLOW_WORD
FamilyDurations == {100, 150, 249, 250, 300, 301, 500, 501, 800, 801, 1200, 1201}

\* STATIC_HANDS, EMPHASIS_GESTURE_COMBO and HIGH_GESTURE_ENERGY
FamilyVelocities == {0, 49, 50, 150, 151, 200, 201}

\* VERY_LOW_INTENSITY, LOW_INTENSITY, FILLER_WORD_INTENSITY,
\* MODERATE_EMPHASIS and VOCAL_EMPHASIS
FamilyIntensities == {0, 199, 200, 349, 350, 449, 500, 501, 650, 651}

\* 50 Hz, LOW_PITCH, HIGH_PITCH and VERY_HIGH_PITCH
FamilyPitches == {0, 5000, 5001, 11999, 12000, 35000, 35001, 45000, 45001}

FamilyInputs ==
  { [word |-> [text |-> t, start |-> TaggerStart, end |-> TaggerStart + d,
               metrics |-> [wrist_velocity |-> wv, audio_intensity |-> ai,
                            pitch |-> p]],
     metrics |-> [wrist_velocity |-> wv, audio_intensity |-> ai, pitch |-> p],
     prosody_frames |-> <<>>,
     word_index |-> 0,
     previous_words |-> <<>>,
     next_words |-> <<>>] :
    t \in FamilyTexts, d \in FamilyDurations, wv \in FamilyVelocities,
    ai \in FamilyIntensities, p \in FamilyPitches }

InitFamilies ==
  /\ IdleEnrich
  /\ fn = "apply_all_heuristics"
  /\ fn_args \in FamilyInputs
  /\ fn_pc = "called"
  /\ fn_result = NoneVal

NextFamilies == TaggerReturns

SpecFamilies == InitFamilies /\ [][NextFamilies]_vars

\* ------------------------------------------------------------------------
\* analyze_pitch_contour called on its own, on the prosody frames of one
\* word: up to MaxPitchFrames frames 25 ms apart whose pitch is null, on an
\* edge of the (70, 800) band, or 60, 61 or 100 Hz above 100 Hz
\* ------------------------------------------------------------------------
MaxPitchFrames == 6

PitchSamples == {NoneVal, 70, 100, 160, 161, 200, 800}

RECURSIVE PitchFrameLists(_)
PitchFrameLists(n) ==
  IF n = 0 THEN {<<>>}
  ELSE LET shorter == PitchFrameLists(n - 1)
       IN  shorter
           \cup { Append(fs, ProsodyFrame(TaggerStart + 25 * (n - 1), p, 400)) :
                  fs \in {l \in shorter : Len(l) = n - 1}, p \in PitchSamples }

InitContour ==
  /\ IdleEnrich
  /\ fn = "analyze_pitch_contour"
  /\ fn_args \in {[prosody_frames |-> fs] : fs \in PitchFrameLists(MaxPitchFrames)}
  /\ fn_pc = "called"
  /\ fn_result = NoneVal

ContourReturns ==
  /\ fn = "analyze_pitch_contour"
  /\ fn_pc = "called"
  /\ fn_result' = analyze_pitch_contour(fn_args.prosody_frames)
  /\ fn_pc' = "returned"
  /\ UNCHANGED <<enrich_vars, job_vars, fn, fn_args>>

NextContour == ContourReturns

SpecContour == InitContour /\ [][NextContour]_vars

\* ------------------------------------------------------------------------
\* analyze_intensity_change called on its own, on the prosody frames of one
\* word: up to MaxIntensityFrames frames whose intensity is null or one of
\* four levels that differ by 0.0101 to 0.0503
\* ------------------------------------------------------------------------
MaxIntensityFrames == 5

IntensitySamples == {NoneVal, 100, 301, 402, 603}

RECURSIVE IntensityFrameLists(_)
IntensityFrameLists(n) ==
  IF n = 0 THEN {<<>>}
  ELSE LET shorter == IntensityFrameLists(n - 1)
       IN  shorter
           \cup { Append(fs, ProsodyFrame(TaggerStart + 25 * (n - 1), 200, a)) :
                  fs \in {l \in shorter : Len(l) = n - 1}, a \in IntensitySamples }

InitDynamics ==
  /\ IdleEnrich
  /\ fn = "analyze_intensity_change"
  /\ fn_args \in {[prosody_frames |-> fs] : fs \in IntensityFrameLists(MaxIntensityFrames)}
  /\ fn_pc = "called"
  /\ fn_result = NoneVal

DynamicsReturns ==
  /\ fn = "analyze_intensity_change"
  /\ fn_pc = "called"
  /\ fn_result' = analyze_intensity_change(fn_args.prosody_frames)
  /\ fn_pc' = "returned"
  /\ UNCHANGED <<enrich_vars, job_vars, fn, fn_args>>

NextDynamics == DynamicsReturns

SpecDynamics == InitDynamics /\ [][NextDynamics]_vars

\* ------------------------------------------------------------------------
\* calculate_wrist_velocity called on its own, on up to MaxVisionFrames
\* frames: the wrists at three places, a frame with no pose, a frame
\* without the "poses" key and a pose without the right wrist
\* ------------------------------------------------------------------------
MaxVisionFrames == 4

\* the left wrist moves by 0.0050, 0.0100 or 0.0150 between two of the
\* three places; the right wrist by 0.0100 or not at all
WristPoses ==
  { <<Landmark(0, 5000, 3000), Landmark(15, 5000, 5000), Landmark(16, 6000, 5000)>>,
    <<Landmark(15, 5030, 5040), Landmark(16, 6000, 5000)>>,
    <<Landmark(16, 6000, 5100), Landmark(15, 5090, 5120)>> }

VisionFrameChoices(t) ==
  {[timestamp |-> t, poses |-> <<pose>>] : pose \in WristPoses}
  \cup { [timestamp |-> t, poses |-> <<>>],
         [timestamp |-> t],
         [timestamp |-> t, poses |-> << <<Landmark(15, 5000, 5000)>> >>] }

RECURSIVE VisionFrameLists(_)
VisionFrameLists(n) ==
  IF n = 0 THEN {<<>>}
  ELSE LET shorter == VisionFrameLists(n - 1)
       IN  shorter
           \cup { Append(fs, f) :
                  fs \in {l \in shorter : Len(l) = n - 1},
                  f \in VisionFrameChoices(TaggerStart + 50 * (n - 1)) }

InitVelocity ==
  /\ IdleEnrich
  /\ fn = "calculate_wrist_velocity"
  /\ fn_args \in {[vision_frames |-> fs] : fs \in VisionFrameLists(MaxVisionFrames)}
  /\ fn_pc = "called"
  /\ fn_result = NoneVal

VelocityReturns ==
  /\ fn = "calculate_wrist_velocity"
  /\ fn_pc = "called"
  /\ fn_result' = calculate_wrist_velocity(fn_args.vision_frames)
  /\ fn_pc' = "returned"
  /\ UNCHANGED <<enrich_vars, job_vars, fn, fn_args>>

NextVelocity == VelocityReturns

SpecVelocity == InitVelocity /\ [][NextVelocity]_vars

\* ------------------------------------------------------------------------
\* main.py: the job store and its two endpoints
\* A handler is an `async def` that never awaits, so it runs to its end on
\* the event loop before another request is served. upload_video is split
\* where it waits for its two worker threads; get_job_status is one step.
\* An optional value is None or Some(value), as in enrich_transcript above.
\* ------------------------------------------------------------------------
MaxJobs == 1

\* the job ids, in the order in which uuid4 draws them
JobIds == 1..MaxJobs

\* str(uuid.uuid4()): an id that no stored job has
fresh_job_id == CHOOSE job_id \in JobIds \ DOMAIN JOB_STATUS_DB :
                  \A other \in JobIds \ DOMAIN JOB_STATUS_DB : job_id <= other

\* the job ids a client may ask /api/status for: one more than are ever stored
PollIds == 1..(MaxJobs + 1)

\* the response of an endpoint, with the request it answers (job_id is 0
\* for an upload, which names no job)
Response(endpoint, job_id, status_code, content) ==
  [endpoint |-> endpoint, job_id |-> job_id, status_code |-> status_code,
   content |-> content]

\* getattr(call, "object_id", None) of the vision call spawned for a job
ModalId(job_id) == Some(job_id)

\* d.pop(k, None)
Pop(d, k) == [x \in (DOMAIN d) \ {k} |-> d[x]]

\* what transcribe_video returns: a completed transcript or an error status
SttResults ==
  { [status |-> "completed",
     words |-> <<[text |-> <<"I">>, start |-> 0, end |-> 400]>>],
    [status |-> "error", words |-> <<>>] }

\* what analyze_prosody returns
ProsodyResults == { SubSeq(ProsodySlot(0), 1, 2) }

\* what the remote vision call returns
VisionResults == { SubSeq(VisionSlot(0), 1, 2) }

\* a worker-thread task: running, or finished by a return or an exception
Running == [state |-> "running"]

Finished(outcome) == [state |-> "finished", outcome |-> outcome]

Outcomes(results) ==
  {[raised |-> TRUE]} \cup {[raised |-> FALSE, result |-> r] : r \in results}

\* enrich_transcript raises when analyze_sentence_patterns does; the word
\* loop keeps the start and end keys of the words
enrich_transcript_raises(transcription) ==
  analyze_sentence_patterns_raises(Get(transcription, "words", <<>>))

\* the report of enrich_transcript, kept as the arguments of the call
enrich_transcript_report(transcription, vision, prosody) ==
  [enriched_from |->
     [transcription |-> transcription, vision |-> vision, prosody |-> prosody]]

\* `transcription and transcription.get("status") == "completed"`
can_enrich(transcription) ==
  IF transcription = None THEN FALSE
  ELSE Get(transcription.val, "status", "") = "completed"

\* the try/except around the call of the core: the value stored as
\* enriched_transcript
enriched_or_error(transcription, vision, prosody) ==
  IF can_enrich(transcription)
  THEN IF enrich_transcript_raises(transcription.val)
       THEN [error |-> "Enrichment failed"]
       ELSE enrich_transcript_report(transcription.val, vision, prosody)
  ELSE [error |-> "Transcription failed, cannot enrich."]

\* upload_video up to the submission of the two tasks: the job id, the
\* optional S3 upload and the optional spawn of the vision call
upload_video_begin ==
  /\ upload.pc = "idle"
  /\ JobIds \ DOMAIN JOB_STATUS_DB # {}
  /\ \E public_video_url, spawned \in BOOLEAN :
       LET modal_call_id == IF public_video_url /\ spawned
                            THEN ModalId(fresh_job_id) ELSE None
       IN  /\ upload' = [pc |-> "tasks", job_id |-> fresh_job_id,
                         modal_call_id |-> modal_call_id,
                         stt_future |-> Running, prosody_future |-> Running,
                         yielded |-> {},
                         transcription_data |-> None, prosody_data |-> None]
           /\ modal_calls' = IF modal_call_id = None THEN modal_calls
                             ELSE Put(modal_calls, modal_call_id.val, "running")
  /\ UNCHANGED <<JOB_STATUS_DB, modal_lookup, response, enrich_calls,
                 enrich_vars, fn_vars>>

\* upload_video when saving the upload raises: the outer except answers 500
upload_video_save_fails ==
  /\ upload.pc = "idle"
  /\ response' = Response("upload_video", 0, 500, [status |-> "error"])
  /\ UNCHANGED <<JOB_STATUS_DB, upload, modal_calls, modal_lookup, enrich_calls,
                 enrich_vars, fn_vars>>

\* the worker thread of transcribe_video ends
stt_task_done ==
  /\ upload.pc = "tasks"
  /\ upload.stt_future = Running
  /\ \E outcome \in Outcomes(SttResults) :
       upload' = [upload EXCEPT !.stt_future = Finished(outcome)]
  /\ UNCHANGED <<JOB_STATUS_DB, modal_calls, modal_lookup, response, enrich_calls,
                 enrich_vars, fn_vars>>

\* the worker thread of analyze_prosody ends
prosody_task_done ==
  /\ upload.pc = "tasks"
  /\ upload.prosody_future = Running
  /\ \E outcome \in Outcomes(ProsodyResults) :
       upload' = [upload EXCEPT !.prosody_future = Finished(outcome)]
  /\ UNCHANGED <<JOB_STATUS_DB, modal_calls, modal_lookup, response, enrich_calls,
                 enrich_vars, fn_vars>>

future_of(u, fut) == IF fut = "stt" THEN u.stt_future ELSE u.prosody_future

\* the body of `for fut in as_completed(...)` run on the future `fut`
\* assigning by completion order: the first future yielded is taken for the
\* transcription
loop_body_by_order(u, fut) ==
  LET outcome == future_of(u, fut).outcome
      seen == [u EXCEPT !.yielded = @ \cup {fut}]
  IN  IF outcome.raised THEN seen
      ELSE IF u.yielded = {}
           THEN [seen EXCEPT !.transcription_data = Some(outcome.result)]
           ELSE [seen EXCEPT !.prosody_data = Some(outcome.result)]

loop_body(u, fut) ==
  LET outcome == future_of(u, fut).outcome
      seen == [u EXCEPT !.yielded = @ \cup {fut}]
  IN  IF outcome.raised THEN seen
      ELSE IF fut = "stt"
           THEN [seen EXCEPT !.transcription_data = Some(outcome.result)]
           ELSE [seen EXCEPT !.prosody_data = Some(outcome.result)]

\* as_completed yields a finished future that it has not yielded yet
as_completed_next ==
  /\ upload.pc = "tasks"
  /\ \E fut \in {"stt", "prosody"} \ upload.yielded :
       /\ future_of(upload, fut).state = "finished"
       /\ upload' = loop_body(upload, fut)
  /\ UNCHANGED <<JOB_STATUS_DB, modal_calls, modal_lookup, response, enrich_calls,
                 enrich_vars, fn_vars>>

\* the job upload_video stores once the loop and the `with` block are over
new_job(u) ==
  [status |-> IF u.modal_call_id = None THEN "complete" ELSE "processing",
   job_id |-> u.job_id,
   modal_id |-> u.modal_call_id,
   transcription |-> u.transcription_data,
   prosody |-> u.prosody_data,
   vision |-> None,
   enriched_transcript |->
     IF u.modal_call_id = None
     THEN enriched_or_error(u.transcription_data, None, u.prosody_data)
     ELSE None]

\* upload_video after the loop: enrich now when no vision call is pending,
\* store the job, answer 200 with the job or 202
upload_video_store ==
  /\ upload.pc = "tasks"
  /\ upload.yielded = {"stt", "prosody"}
  /\ JOB_STATUS_DB' = Put(JOB_STATUS_DB, upload.job_id, new_job(upload))
  /\ enrich_calls' =
       Put(enrich_calls, upload.job_id,
           IF upload.modal_call_id = None /\ can_enrich(upload.transcription_data)
           THEN 1 ELSE 0)
  /\ response' =
       IF upload.modal_call_id = None
       THEN Response("upload_video", 0, 200, new_job(upload))
       ELSE Response("upload_video", 0, 202,
                     [status |-> "processing", job_id |-> upload.job_id])
  /\ upload' = [pc |-> "idle"]
  /\ UNCHANGED <<modal_calls, modal_lookup, enrich_vars, fn_vars>>

\* job after `enriched_transcript = ...; status = "complete"; pop("modal_id")`
finalized(job, vision) ==
  Pop([job EXCEPT !.enriched_transcript =
                     enriched_or_error(job.transcription, vision, job.prosody),
                  !.status = "complete"],
      "modal_id")

Processing(job_id) ==
  [job |-> JOB_STATUS_DB[job_id], called |-> FALSE,
   response |-> Response("get_job_status", job_id, 200,
                         [status |-> "processing", job_id |-> job_id])]

Completed(job) ==
  [job |-> job, called |-> can_enrich(job.transcription),
   response |-> Response("get_job_status", job.job_id, 200, job)]

\* get_job_status without the `Already done?` return
get_job_status_result_no_early_return(job_id) ==
  LET job == JOB_STATUS_DB[job_id]
      modal_id == Get(job, "modal_id", None)
  IN  IF modal_id # None
      THEN IF modal_lookup = "ok"
           THEN IF modal_calls[modal_id.val] = "done"
                THEN LET vision_data_ == Some(CHOOSE v \in VisionResults : TRUE)
                     IN  Completed(finalized([job EXCEPT !.vision = vision_data_],
                                             vision_data_))
                ELSE Processing(job_id)
           ELSE Completed(finalized(job, None))
      ELSE Completed(finalized(job, job.vision))

\* get_job_status on a stored job: the job it leaves in the store, whether
\* it called enrich_transcript, and its response
get_job_status_result(job_id) ==
  LET job == JOB_STATUS_DB[job_id]
      modal_id == Get(job, "modal_id", None)
  IN  IF job.status = "complete"
      THEN [job |-> job, called |-> FALSE,
            response |-> Response("get_job_status", job_id, 200, job)]
      ELSE IF modal_id # None
      THEN IF modal_lookup = "ok"
           THEN IF modal_calls[modal_id.val] = "done"
                THEN LET vision_data_ == Some(CHOOSE v \in VisionResults : TRUE)
                     IN  Completed(finalized([job EXCEPT !.vision = vision_data_],
                                             vision_data_))
                ELSE Processing(job_id)
           ELSE Completed(finalized(job, None))
      ELSE Completed(finalized(job, job.vision))

get_job_status(job_id) ==
  /\ upload.pc = "idle"
  /\ IF job_id \notin DOMAIN JOB_STATUS_DB
     THEN /\ response' = Response("get_job_status", job_id, 404,
                                   [status |-> "error", detail |-> "Job not found."])
          /\ UNCHANGED <<JOB_STATUS_DB, enrich_calls>>
     ELSE LET result == get_job_status_result(job_id)
          IN  /\ JOB_STATUS_DB' = Put(JOB_STATUS_DB, job_id, result.job)
              /\ enrich_calls' =
                   IF result.called
                   THEN Put(enrich_calls, job_id, enrich_calls[job_id] + 1)
                   ELSE enrich_calls
              /\ response' = result.response
  /\ UNCHANGED <<upload, modal_calls, modal_lookup, enrich_vars, fn_vars>>

\* the remote vision call returns its log or raises
modal_call_terminates ==
  /\ \E modal_id \in DOMAIN modal_calls, outcome \in {"done", "failed"} :
       /\ modal_calls[modal_id] = "running"
       /\ modal_calls' = Put(modal_calls, modal_id, outcome)
  /\ UNCHANGED <<JOB_STATUS_DB, upload, modal_lookup, response, enrich_calls,
                 enrich_vars, fn_vars>>

\* modal.FunctionCall.from_id starts or stops raising
modal_lookup_changes ==
  /\ modal_lookup' = IF modal_lookup = "ok" THEN "fails" ELSE "ok"
  /\ UNCHANGED <<JOB_STATUS_DB, upload, modal_calls, response, enrich_calls,
                 enrich_vars, fn_vars>>

InitJobs ==
  /\ IdleEnrich
  /\ fn = "main"
  /\ fn_args = EmptyDict
  /\ fn_pc = "idle"
  /\ fn_result = NoneVal

NextJobs ==
  \/ upload_video_begin
  \/ upload_video_save_fails
  \/ stt_task_done
  \/ prosody_task_done
  \/ as_completed_next
  \/ upload_video_store
  \/ \E job_id \in PollIds : get_job_status(job_id)
  \/ modal_call_terminates
  \/ modal_lookup_changes

SpecJobs == InitJobs /\ [][NextJobs]_vars

\* repeated polling: a poll that would change the store or the response is
\* eventually served
SpecJobsPolled ==
  SpecJobs /\ \A job_id \in PollIds : WF_vars(get_job_status(job_id))

\* ========================================================================
\* Properties
\* ========================================================================
IsList(x) == DOMAIN x = 1..Len(x)

PublicKeys == {"text", "tags", "confidence_score"}

\* the input word at 0-based index idx has text, start and end
HasAllFields(idx) ==
  /\ HasKey(words[idx + 1], "text")
  /\ HasKey(words[idx + 1], "start")
  /\ HasKey(words[idx + 1], "end")

LacksTime(idx) ==
  ~HasKey(words[idx + 1], "start") \/ ~HasKey(words[idx + 1], "end")

WordIndices == 0..(Len(words) - 1)

IsFallback(w) ==
  /\ HasKey(w, "tags") /\ w.tags = <<"error">>
  /\ HasKey(w, "confidence_score") /\ w.confidence_score = 50

HasTagsAndScore(w) ==
  /\ HasKey(w, "tags") /\ IsList(w.tags)
  /\ HasKey(w, "confidence_score") /\ w.confidence_score \in 0..100

C2_TagsAndScoreAlwaysPresent ==
  /\ \A k \in 1..Len(enriched_words) : HasTagsAndScore(enriched_words[k])
  /\ pc = "done" => \A k \in 1..Len(report.words) : HasTagsAndScore(report.words[k])

\* a report holding a fallback word and a normally enriched word whose
\* score was clamped to 0
C2_Witness ==
  /\ pc = "done"
  /\ \E k \in 1..Len(report.words) : report.words[k].tags = <<"error">>
  /\ \E k \in 1..Len(report.words) :
       /\ report.words[k].tags # <<"error">>
       /\ report.words[k].confidence_score = 0

C4_NeverRaisesOnMissingTimes ==
  (\E idx \in WordIndices : LacksTime(idx)) => pc # "raised"

\* ------------------------------------------------------------------------
\* C5: a word with text, start and end, processed with both frame lists
\* present, never takes the except branch (tags ["error"], score 50).
\* ------------------------------------------------------------------------
C5_FailureConfinedToMalformedWord ==
  \A idx \in failed :
    vision_data.none \/ prosody_data.none \/ ~HasAllFields(idx)

\* ------------------------------------------------------------------------
\* C6: with vision_data = None and prosody_data = None every enriched word
\* has all-zero metrics and carries only lexical tags and pause tags.
\* ------------------------------------------------------------------------
LexicalTags ==
  {"filler_word", "hesitation", "question_word", "assertion", "uncertainty_marker"}

PauseTags == {"short_pause_before", "long_pause_before", "very_long_pause_before"}

C6_NoFramesOnlyLexicalAndPauseTags ==
  (vision_data.none /\ prosody_data.none) =>
    \A k \in 1..Len(enriched_words) :
      /\ enriched_words[k].metrics = ZeroMetrics
      /\ \A j \in 1..Len(enriched_words[k].tags) :
           enriched_words[k].tags[j] \in LexicalTags \cup PauseTags

\* ------------------------------------------------------------------------
\* C7: when exactly one of vision_data and prosody_data is None, no word
\* having text, start and end takes the except branch.
\* ------------------------------------------------------------------------
C7_AbsentModalityIsNotAnError ==
  (vision_data.none # prosody_data.none) =>
    \A idx \in failed : ~HasAllFields(idx)

\* ------------------------------------------------------------------------
\* C8: on an empty or missing word list the returned report has words = []
\* and a sentence_analysis with every field of the output schema, each
\* zero or empty.
\* ------------------------------------------------------------------------
AnalysisKeys ==
  {"avg_confidence", "fluency_score", "disfluency_count", "speaking_rate",
   "tag_distribution", "patterns", "word_count", "total_duration"}

C8_EmptyReportHasEveryField ==
  (pc = "done" /\ words = <<>>) =>
    /\ report.words = <<>>
    /\ DOMAIN report.sentence_analysis = AnalysisKeys
    /\ report.sentence_analysis.avg_confidence = 0
    /\ report.sentence_analysis.fluency_score = 0
    /\ report.sentence_analysis.disfluency_count = 0
    /\ report.sentence_analysis.speaking_rate = 0
    /\ report.sentence_analysis.tag_distribution = EmptyDict
    /\ report.sentence_analysis.patterns = <<>>
    /\ report.sentence_analysis.word_count = 0
    /\ report.sentence_analysis.total_duration = 0

\* ------------------------------------------------------------------------
\* C9: analyze_sentence_patterns([]) raises no error and returns a report
\* with word_count = 0, avg_confidence = 0 and patterns = [].
\* ------------------------------------------------------------------------
C9_EmptyListGivesZeroReport ==
  (fn = "analyze_sentence_patterns" /\ fn_pc # "called" /\ fn_args.words = <<>>) =>
    /\ fn_pc = "returned"
    /\ HasKey(fn_result, "word_count") /\ fn_result.word_count = 0
    /\ HasKey(fn_result, "avg_confidence") /\ fn_result.avg_confidence = 0
    /\ HasKey(fn_result, "patterns") /\ fn_result.patterns = <<>>

\* ------------------------------------------------------------------------
\* C10: calculate_confidence_score returns the clamp to [0, 100] of 50
\* plus the adjustment table of the specification, every rule counted at
\* most once whatever number of its tags is present.
\* ------------------------------------------------------------------------
\* the rules keyed on tags alone: any of `tags` present adds `delta`
TagRules ==
  << [tags |-> {"falling_intonation"}, delta |-> 15],
     [tags |-> {"strong_vocal_emphasis", "vocal_emphasis"}, delta |-> 12],
     [tags |-> {"low_pitch"}, delta |-> 8],
     [tags |-> {"assertion"}, delta |-> 10],
     [tags |-> {"passionate"}, delta |-> 8],
     [tags |-> {"slow_deliberate"}, delta |-> 8],
     [tags |-> {"crescendo"}, delta |-> 6],
     [tags |-> {"stutter", "false_start"}, delta |-> -25],
     [tags |-> {"hesitation", "filler_word"}, delta |-> -15],
     [tags |-> {"uncertainty_marker"}, delta |-> -12],
     [tags |-> {"soft_spoken", "very_soft_spoken"}, delta |-> -12],
     [tags |-> {"pitch_wobble"}, delta |-> -10],
     [tags |-> {"low_energy"}, delta |-> -15],
     [tags |-> {"searching_for_words"}, delta |-> -12],
     [tags |-> {"very_fast"}, delta |-> -8],
     [tags |-> {"long_pause_before", "very_long_pause_before"}, delta |-> -10],
     [tags |-> {"decrescendo"}, delta |-> -5] >>

TableSum(T, metrics, word_duration) ==
  50
  + SumSeq([k \in 1..Len(TagRules) |->
              IF TagRules[k].tags \cap T # {} THEN TagRules[k].delta ELSE 0])
  + (IF 100 < metrics.wrist_velocity /\ metrics.wrist_velocity < 300 THEN 10 ELSE 0)
  + (IF metrics.audio_intensity > 450 THEN 10 ELSE 0)
  + (IF word_duration > 500 THEN 5 ELSE 0)
  - (IF "static_hands" \in T /\ word_duration > 500 THEN 8 ELSE 0)
  - (IF "rising_intonation" \in T /\ "question_word" \notin T THEN 7 ELSE 0)

TagSetOf(tags) == {tags[k] : k \in 1..Len(tags)}

C10_ScoreIsClampedTableSum ==
  (fn = "calculate_confidence_score" /\ fn_pc = "returned") =>
    LET sum == TableSum(TagSetOf(fn_args.tags), fn_args.metrics, fn_args.word_duration)
    IN  fn_result = IF sum < 0 THEN 0 ELSE IF sum > 100 THEN 100 ELSE sum

\* the example of the specification: 50+15+12+10+10+10+5 = 112, clamped
C10_Witness ==
  /\ fn = "calculate_confidence_score"
  /\ fn_pc = "returned"
  /\ TagSetOf(fn_args.tags) = {"falling_intonation", "strong_vocal_emphasis", "assertion"}
  /\ fn_args.metrics.wrist_velocity = 200
  /\ fn_args.metrics.audio_intensity = 500
  /\ fn_args.word_duration = 600
  /\ TableSum(TagSetOf(fn_args.tags), fn_args.metrics, fn_args.word_duration) = 112
  /\ fn_result = 100

\* ------------------------------------------------------------------------
\* Properties of apply_all_heuristics (SpecTagger)
\* ------------------------------------------------------------------------
TaggerReturned == fn = "apply_all_heuristics" /\ fn_pc = "returned"

HasTag(t) == \E k \in 1..Len(fn_result.tags) : fn_result.tags[k] = t

\* the word's duration and normalized text, and the last previous word
ArgDuration == fn_args.word.end - fn_args.word.start

ArgText == Normalize(fn_args.word.text)

ArgPrevious == fn_args.previous_words[Len(fn_args.previous_words)]

\* ------------------------------------------------------------------------
\* C11: a word that apply_all_heuristics returns is tagged stutter if and
\* only if it has a previous word and (its duration is below 0.15 s and
\* its normalized text equals the previous word's normalized text) or (its
\* duration is below 0.15 s, its normalized text has at most 3 characters
\* and the previous normalized text starts with it) or (its normalized
\* text is a stutter-prone word and equals the previous normalized text);
\* a first word is never tagged stutter.
\* ------------------------------------------------------------------------
C11_StutterIffRepetition ==
  TaggerReturned =>
    (HasTag("stutter") <=>
       IF fn_args.previous_words = <<>> THEN FALSE
       ELSE IF ~(ArgDuration < 150 \/ ArgText \in STUTTER_PRONE_WORDS) THEN FALSE
       ELSE LET prev == Normalize(ArgPrevious.text)
            IN  \/ ArgDuration < 150 /\ ArgText = prev
                \/ ArgDuration < 150 /\ Len(ArgText) <= 3 /\ StartsWith(prev, ArgText)
                \/ ArgText \in STUTTER_PRONE_WORDS /\ ArgText = prev)

\* ("I", 0.1 s) after ("I", ...): the second word is tagged stutter
C11_Witness ==
  /\ TaggerReturned
  /\ fn_args.word.text = <<"I">> /\ ArgDuration = 100
  /\ fn_args.word_index = 1
  /\ ArgPrevious.text = <<"I">>
  /\ HasTag("stutter")

C13_PauseTagByExclusiveBoundaries ==
  TaggerReturned =>
    SelectSeq(fn_result.tags, LAMBDA t : t \in PauseTags) =
      IF fn_args.previous_words = <<>> THEN <<>>
      ELSE LET gap == fn_args.word.start - ArgPrevious.end
           IN  IF gap > 1500 THEN <<"very_long_pause_before">>
               ELSE IF gap > 800 THEN <<"long_pause_before">>
               ELSE IF gap > 300 THEN <<"short_pause_before">>
               ELSE <<>>

\* a gap of exactly 1.5 s tagged long_pause_before
C13_Witness ==
  /\ TaggerReturned
  /\ fn_args.previous_words # <<>>
  /\ fn_args.word.start - ArgPrevious.end = 1500
  /\ HasTag("long_pause_before")
  /\ ~HasTag("very_long_pause_before")

\* ------------------------------------------------------------------------
\* C18: the tag list of a word that apply_all_heuristics returns holds no
\* tag twice, and its tags come in the order of the analyzers: gesture
\* energy, vocal patterns, pitch contour, intensity dynamics, cross-modal
\* coordination, pause-before, stutter, false_start; no tag of an earlier
\* analyzer stands after a tag of a later one.
\* ------------------------------------------------------------------------
AnalyzerTags ==
  << {"high_gesture_energy", "moderate_gesture", "static_hands"},
     {"strong_vocal_emphasis", "vocal_emphasis", "very_soft_spoken", "soft_spoken",
      "very_high_pitch", "high_pitch", "low_pitch", "very_fast", "fast_paced",
      "very_slow", "slow_deliberate", "filler_word", "hesitation", "question_word",
      "assertion", "uncertainty_marker"},
     {"rising_intonation", "falling_intonation", "pitch_wobble"},
     {"intensity_spike", "crescendo", "decrescendo"},
     {"strong_emphasis", "moderate_emphasis", "animated", "passionate", "low_energy",
      "searching_for_words"},
     PauseTags,
     {"stutter"},
     {"false_start"} >>

AnalyzerOf(t) == CHOOSE k \in 1..Len(AnalyzerTags) : t \in AnalyzerTags[k]

C18_TagsInAnalyzerOrderWithoutRepeats ==
  TaggerReturned =>
    /\ \A k \in 1..Len(fn_result.tags) :
         \E a \in 1..Len(AnalyzerTags) : fn_result.tags[k] \in AnalyzerTags[a]
    /\ \A j, k \in 1..Len(fn_result.tags) :
         j < k => /\ fn_result.tags[j] # fn_result.tags[k]
                  /\ AnalyzerOf(fn_result.tags[j]) <= AnalyzerOf(fn_result.tags[k])

\* a tag list with tags of at least five analyzers, stutter and false_start
\* among them
C18_Witness ==
  /\ TaggerReturned
  /\ HasTag("stutter") /\ HasTag("false_start")
  /\ Cardinality({AnalyzerOf(fn_result.tags[k]) : k \in 1..Len(fn_result.tags)}) >= 5

\* ------------------------------------------------------------------------
\* C14: for a word with start and end and frame lists that are lists,
\* slice_data_for_word returns without error, and each returned list holds
\* exactly the frames of its frame list whose timestamp t satisfies
\* word.start <= t <= word.end, in the order of the frame list: frames at
\* word.start and at word.end are in, a frame before word.start is out, a
\* frame at the shared boundary of two touching words is in both words'
\* slices, and empty lists give empty slices.
\* ------------------------------------------------------------------------
\* res lists, in order, the frames of `frames` with lo <= timestamp <= hi
IsClosedSlice(res, frames, lo, hi) ==
  LET K == {k \in 1..Len(frames) :
              /\ HasKey(frames[k], "timestamp")
              /\ lo <= frames[k].timestamp /\ frames[k].timestamp <= hi}
  IN  /\ Len(res) = Cardinality(K)
      /\ \A k \in K : res[Cardinality({m \in K : m <= k})] = frames[k]

C14_SliceIsClosedInterval ==
  ( /\ fn = "slice_data_for_word" /\ fn_pc # "called"
    /\ HasKey(fn_args.word, "start") /\ HasKey(fn_args.word, "end")
    /\ ~fn_args.vision_data.none /\ ~fn_args.prosody_data.none ) =>
    /\ fn_pc = "returned"
    /\ IsClosedSlice(fn_result.vision, fn_args.vision_data.val,
                     fn_args.word.start, fn_args.word.end)
    /\ IsClosedSlice(fn_result.prosody, fn_args.prosody_data.val,
                     fn_args.word.start, fn_args.word.end)

\* the word [1.0, 1.5] over all vision frames: the frames at 1.0, 1.25 and
\* 1.5 are returned, the frames at 0.999 and 1.501 are not
C14_Witness ==
  /\ fn = "slice_data_for_word" /\ fn_pc = "returned"
  /\ fn_args.word.text = <<"I">>
  /\ fn_args.vision_data = Some(SliceVision)
  /\ fn_args.prosody_data = Some(<<>>)
  /\ fn_result.vision = SubSeq(SliceVision, 3, 5)
  /\ fn_result.prosody = <<>>

\* ------------------------------------------------------------------------
\* Properties of analyze_sentence_patterns on a non-empty list
\* (SpecAggregate)
\* ------------------------------------------------------------------------
AggregateReturned ==
  fn = "analyze_sentence_patterns" /\ fn_pc = "returned" /\ fn_args.words # <<>>

\* the number of occurrences of the tags of T over all words of ws
Occurrences(ws, T) ==
  Cardinality({<<k, j>> \in (1..Len(ws)) \X (1..8) :
                 /\ HasKey(ws[k], "tags")
                 /\ j <= Len(ws[k].tags)
                 /\ ws[k].tags[j] \in T})

InList(t, list) == \E k \in 1..Len(list) : list[k] = t

\* ------------------------------------------------------------------------
\* C15: in the report analyze_sentence_patterns returns for a non-empty
\* list, disfluency_count is the number of occurrences of hesitation,
\* filler_word, stutter and false_start over all words, fluency_score is
\* max(0, 100 - 15 * disfluency_count - 5 * pause_count) with pause_count
\* the occurrences of long_pause_before and very_long_pause_before, so
\* 0 <= fluency_score <= 100, and with disfluency_count >= 3 the patterns
\* hold frequent_disfluencies and not some_disfluencies.
\* ------------------------------------------------------------------------
C15_DisfluencyCountAndFluencyScore ==
  AggregateReturned =>
    LET d == Occurrences(fn_args.words,
                         {"hesitation", "filler_word", "stutter", "false_start"})
        p == Occurrences(fn_args.words,
                         {"long_pause_before", "very_long_pause_before"})
        raw == 100 - 15 * d - 5 * p
    IN  /\ \A k \in 1..Len(fn_args.words) : Len(Get(fn_args.words[k], "tags", <<>>)) <= 8
        /\ fn_result.disfluency_count = d
        /\ fn_result.fluency_score = IF raw < 0 THEN 0 ELSE raw
        /\ fn_result.fluency_score \in 0..100
        /\ d >= 3 => /\ InList("frequent_disfluencies", fn_result.patterns)
                     /\ ~InList("some_disfluencies", fn_result.patterns)

\* four disfluency tags and one long pause over two words:
\* fluency_score = 100 - 60 - 5
C15_Witness ==
  /\ AggregateReturned
  /\ Len(fn_args.words) = 2
  /\ fn_result.disfluency_count = 4
  /\ fn_result.fluency_score = 35
  /\ InList("frequent_disfluencies", fn_result.patterns)

\* ------------------------------------------------------------------------
\* C16: in the report analyze_sentence_patterns returns for a non-empty
\* list, total_duration is the span from the first word's start to the
\* last word's end (rounded to 0.01 s), and speaking_rate is word_count
\* divided by that span (rounded to 0.01 words per second), or 0 when the
\* span is 0; a single word of zero duration gives speaking_rate 0.
\* ------------------------------------------------------------------------
\* 2 * |a| <= b: a is at most half of b
WithinHalf(a, b) == 2 * (IF a < 0 THEN -a ELSE a) <= b

C16_SpeakingRateOverSpan ==
  AggregateReturned =>
    LET n == Len(fn_args.words)
        span == fn_args.words[n].end - fn_args.words[1].start
    IN  /\ fn_result.word_count = n
        /\ WithinHalf(10 * fn_result.total_duration - span, 10)
        /\ IF span = 0 THEN fn_result.speaking_rate = 0
           ELSE WithinHalf(fn_result.speaking_rate * span - 100000 * n, span)

\* a single word of zero duration
C16_Witness ==
  /\ AggregateReturned
  /\ Len(fn_args.words) = 1
  /\ fn_args.words[1].end = fn_args.words[1].start
  /\ fn_result.speaking_rate = 0
  /\ fn_result.total_duration = 0

\* ------------------------------------------------------------------------
\* C17: a second call of enrich_transcript on the same transcript object,
\* whose words the first call changed in place, with the same frame lists,
\* ends as the first call did: it returns a report identical to the first
\* call's report, or raises if the first call raised.
\* ------------------------------------------------------------------------
C17_SecondRunGivesSameReport ==
  fn = "enrich_transcript" =>
    /\ pc = "done" => fn_pc = "returned" /\ report = fn_result
    /\ pc = "raised" => fn_pc = "raised"

\* a second run that returned, over words carrying the first run's
\* metrics, one of them left with tags ["error"] by the except block and
\* one enriched normally
C17_Witness ==
  /\ fn = "enrich_transcript" /\ fn_pc = "returned"
  /\ pc = "done"
  /\ Len(report.words) = 3
  /\ report.words[2].tags = <<"error">>
  /\ report.words[3].tags # <<"error">>
  /\ report.words[3].tags # <<>>
  /\ \A k \in 1..3 : HasKey(words[k], "metrics")
  /\ report = fn_result

\* ------------------------------------------------------------------------
\* C19: the cross-modal checks are evaluated one after the other without
\* early exit (moderate_emphasis only when strong_emphasis did not fire),
\* so more than one of the six tags can be emitted for a word; the sets of
\* tags analyze_multimodal_emphasis emits are exactly the ten sets of
\* EmphasisSubsets, each of them for some metric values.
\* ------------------------------------------------------------------------
EmphasisTags ==
  {"strong_emphasis", "moderate_emphasis", "animated", "passionate", "low_energy",
   "searching_for_words"}

EmphasisSubsets ==
  { {}, {"strong_emphasis"}, {"moderate_emphasis"}, {"animated"}, {"passionate"},
    {"low_energy"}, {"searching_for_words"},
    {"animated", "searching_for_words"},
    {"moderate_emphasis", "animated"},
    {"strong_emphasis", "animated", "passionate"} }

\* some metric values make analyze_multimodal_emphasis emit exactly S
Emitted(S) ==
  \E m \in EmphasisInputs :
    TagSetOf(analyze_multimodal_emphasis(m.wrist_velocity, m.audio_intensity,
                                         m.pitch)) = S

C19_EmittedSubsetsAreTheTen ==
  (fn = "analyze_multimodal_emphasis" /\ fn_pc = "returned") =>
    /\ TagSetOf(fn_result) \in EmphasisSubsets
    /\ \A S \in EmphasisSubsets : Emitted(S)

\* three of the six tags emitted together
C19_Witness ==
  /\ fn = "analyze_multimodal_emphasis" /\ fn_pc = "returned"
  /\ TagSetOf(fn_result) = {"strong_emphasis", "animated", "passionate"}

\* C19 as stated: every subset of the six tags is emitted for some metric
\* values.
C19_AnySubsetMayFire ==
  (fn = "analyze_multimodal_emphasis" /\ fn_pc = "returned") =>
    \A S \in SUBSET EmphasisTags : Emitted(S)

\* ------------------------------------------------------------------------
\* C20: when the loop is about to process word i (0-based), the enriched
\* list holds exactly i entries, the k-th for the k-th input word whether
\* it was enriched or fell back; the previous context handed to the tagger
\* is the enriched words max(0, i-3)..i-1 in order and is non-empty for
\* every i > 0; the lookahead is the raw words i+1..min(n-1, i+3) in order
\* and is empty for the last word.
\* ------------------------------------------------------------------------
C20_ContextWindows ==
  (pc = "loop" /\ i < Len(words)) =>
    LET n == Len(words)
        lo == IF i > 3 THEN i - 3 ELSE 0
        hi == IF n - 1 < i + 3 THEN n - 1 ELSE i + 3
    IN  /\ Len(enriched_words) = i
        /\ \A k \in 1..i :
             /\ Get(enriched_words[k], "text", <<>>) = Get(words[k], "text", <<>>)
             /\ HasKey(enriched_words[k], "tags")
        /\ previous_words_at(i) = [k \in 1..(i - lo) |-> enriched_words[lo + k]]
        /\ i > 0 => previous_words_at(i) # <<>>
        /\ next_words_at(i) = [k \in 1..(hi - i) |-> words[i + 1 + k]]
        /\ i = n - 1 => next_words_at(i) = <<>>

\* the fifth word about to be processed: four entries in the enriched
\* list, one of them a fallback, and a previous context of the last three
C20_Witness ==
  /\ pc = "loop" /\ i = 4 /\ Len(words) = 5
  /\ Len(enriched_words) = 4
  /\ enriched_words[1].tags = <<"error">>
  /\ enriched_words[4].tags # <<"error">>
  /\ Len(previous_words_at(i)) = 3
  /\ previous_words_at(i)[1] = enriched_words[2]

\* ------------------------------------------------------------------------
\* C21: in the report analyze_sentence_patterns returns for a non-empty
\* list, the pattern rules of different groups are evaluated independently
\* of one another and stack: a pattern is in the patterns list exactly when
\* its own count or ratio threshold is met and no earlier pattern of its
\* own group fired; the groups with more than one pattern are gesture
\* animation (highly_animated, else moderately_animated), the confidence
\* bands (confident_delivery, else uncertain_delivery) and pacing
\* (rapid_speech, else deliberate_speech).
\* ------------------------------------------------------------------------
\* the rules: pattern, its own threshold on the argument list, and the
\* earlier pattern of its group ("" when it has none)
PatternRules ==
  LET ws == fn_args.words
      n == Len(ws)
      c(T) == Occurrences(ws, T)
      conf == SumSeq([k \in 1..n |-> Get(ws[k], "confidence_score", 50)])
  IN  { [pattern |-> "highly_animated", after |-> "",
         met |-> 10 * c({"high_gesture_energy"}) >= 5 * n],
        [pattern |-> "moderately_animated", after |-> "highly_animated",
         met |-> 10 * c({"moderate_gesture"}) >= 4 * n],
        [pattern |-> "minimal_gesture", after |-> "",
         met |-> 10 * c({"static_hands"}) >= 6 * n],
        [pattern |-> "low_energy_delivery", after |-> "",
         met |-> 10 * c({"low_energy"}) >= 4 * n],
        [pattern |-> "confident_delivery", after |-> "",
         met |-> conf >= 70 * n],
        [pattern |-> "uncertain_delivery", after |-> "confident_delivery",
         met |-> conf <= 40 * n],
        [pattern |-> "emphatic_speech", after |-> "",
         met |-> 10 * c({"strong_vocal_emphasis", "vocal_emphasis"}) >= 4 * n],
        [pattern |-> "rapid_speech", after |-> "",
         met |-> 10 * c({"very_fast", "fast_paced"}) >= 5 * n],
        [pattern |-> "deliberate_speech", after |-> "rapid_speech",
         met |-> 10 * c({"very_slow", "slow_deliberate"}) >= 5 * n],
        [pattern |-> "frequent_pauses", after |-> "",
         met |-> c({"long_pause_before", "very_long_pause_before"}) >= 3],
        [pattern |-> "passionate_delivery", after |-> "",
         met |-> 10 * c({"passionate"}) >= 3 * n],
        [pattern |-> "animated_delivery", after |-> "",
         met |-> 10 * c({"animated"}) >= 3 * n],
        [pattern |-> "shows_uncertainty", after |-> "",
         met |-> c({"uncertainty_marker"}) >= 2] }

C21_PatternGroupsStack ==
  AggregateReturned =>
    \A r \in PatternRules :
      InList(r.pattern, fn_result.patterns) <=>
        (r.met /\ (r.after = "" \/ ~InList(r.after, fn_result.patterns)))

\* patterns of five groups reported together
C21_Witness ==
  /\ AggregateReturned
  /\ InList("highly_animated", fn_result.patterns)
  /\ InList("confident_delivery", fn_result.patterns)
  /\ InList("emphatic_speech", fn_result.patterns)
  /\ InList("deliberate_speech", fn_result.patterns)
  /\ InList("passionate_delivery", fn_result.patterns)

\* C21 as stated: every pattern whose own threshold is met is in the
\* patterns list, whatever other patterns were detected.
C21_EveryMetRuleAppears ==
  AggregateReturned =>
    \A r \in PatternRules : r.met => InList(r.pattern, fn_result.patterns)

\* ------------------------------------------------------------------------
\* Properties of the tag families of apply_all_heuristics (SpecFamilies)
\* ------------------------------------------------------------------------
PacingFamily == <<"very_fast", "fast_paced", "very_slow", "slow_deliberate">>

GestureFamily == <<"high_gesture_energy", "moderate_gesture">>

VocalEmphasisFamily == <<"strong_vocal_emphasis", "vocal_emphasis">>

SoftnessFamily == <<"very_soft_spoken", "soft_spoken">>

PitchFamily == <<"very_high_pitch", "high_pitch", "low_pitch">>

EmphasisComboFamily == <<"strong_emphasis", "moderate_emphasis">>

TagFamilies ==
  { PacingFamily, GestureFamily, VocalEmphasisFamily, SoftnessFamily,
    PitchFamily, EmphasisComboFamily }

\* number of positions of the tag list that hold a tag of the family
FamilyCount(tags, family) ==
  Cardinality({k \in 1..Len(tags) : InList(tags[k], family)})

\* the pacing conditions in the order of the if/elif chain
PacingMatches(d) ==
  << d < VERY_FAST_WORD, d < FAST_WORD, d > VERY_SLOW_WORD, d > SLOW_WORD >>

\* C22: after apply_all_heuristics a word carries at most one tag of each
\* family (pacing, gesture level, vocal emphasis, softness, pitch level,
\* emphasis combination); its pacing tag is the first of very_fast,
\* fast_paced, very_slow, slow_deliberate whose condition the duration
\* meets; it never carries a vocal-emphasis tag with a softness tag, nor
\* static_hands with a gesture-level tag
C22_OneTagPerFamily ==
  TaggerReturned =>
    LET tags == fn_result.tags
        d == fn_args.word.end - fn_args.word.start
    IN  /\ \A family \in TagFamilies : FamilyCount(tags, family) <= 1
        /\ \A k \in 1..4 :
             InList(PacingFamily[k], tags) <=>
               (PacingMatches(d)[k] /\ \A j \in 1..(k - 1) : ~PacingMatches(d)[j])
        /\ ~(FamilyCount(tags, VocalEmphasisFamily) > 0
             /\ FamilyCount(tags, SoftnessFamily) > 0)
        /\ ~(InList("static_hands", tags) /\ FamilyCount(tags, GestureFamily) > 0)

\* a word of 0.1 s that meets both fast conditions, with a tag of every
\* other family
C22_Witness ==
  /\ TaggerReturned
  /\ fn_args.word.end - fn_args.word.start = 100
  /\ InList("very_fast", fn_result.tags)
  /\ InList("high_gesture_energy", fn_result.tags)
  /\ InList("strong_vocal_emphasis", fn_result.tags)
  /\ InList("very_high_pitch", fn_result.tags)
  /\ InList("strong_emphasis", fn_result.tags)


HighPitchFamily == <<"high_pitch", "very_high_pitch">>

\* C23: the cross-modal tags of a word agree with its single-modality tags:
\* strong_emphasis comes with strong_vocal_emphasis and a gesture-level tag,
\* passionate with strong_vocal_emphasis and a high-pitch tag, animated with
\* a gesture-level tag and a high-pitch tag, low_energy and
\* searching_for_words each with a softness tag, and hesitation with
\* filler_word
C23_CrossModalAgrees ==
  TaggerReturned =>
    LET tags == fn_result.tags
        gesture == FamilyCount(tags, GestureFamily) > 0
        high == FamilyCount(tags, HighPitchFamily) > 0
        soft == FamilyCount(tags, SoftnessFamily) > 0
    IN  /\ InList("strong_emphasis", tags)
             => (InList("strong_vocal_emphasis", tags) /\ gesture)
        /\ InList("passionate", tags)
             => (InList("strong_vocal_emphasis", tags) /\ high)
        /\ InList("animated", tags) => (gesture /\ high)
        /\ InList("low_energy", tags) => soft
        /\ InList("searching_for_words", tags) => soft
        /\ InList("hesitation", tags) => InList("filler_word", tags)

\* strong_emphasis, passionate and animated on a word whose gesture is
\* moderate only
C23_Witness ==
  /\ TaggerReturned
  /\ InList("strong_emphasis", fn_result.tags)
  /\ InList("passionate", fn_result.tags)
  /\ InList("animated", fn_result.tags)
  /\ InList("moderate_gesture", fn_result.tags)


\* ------------------------------------------------------------------------
\* Properties of analyze_pitch_contour (SpecContour)
\* ------------------------------------------------------------------------
ContourReturned == fn = "analyze_pitch_contour" /\ fn_pc = "returned"

\* positions of the frames whose pitch is not null and strictly inside
\* (70, 800) Hz
VoicedPositions ==
  {k \in 1..Len(fn_args.prosody_frames) :
     LET p == fn_args.prosody_frames[k].pitch
     IN  p # NoneVal /\ p > 70 /\ p < 800}

MinOf(S) == CHOOSE k \in S : \A j \in S : k <= j

MaxOf(S) == CHOOSE k \in S : \A j \in S : k >= j

\* last voiced pitch minus first voiced pitch
VoicedChange ==
  fn_args.prosody_frames[MaxOf(VoicedPositions)].pitch
    - fn_args.prosody_frames[MinOf(VoicedPositions)].pitch

\* n^2 times the variance of the voiced pitches
VoicedSpread ==
  LET n == Cardinality(VoicedPositions)
      sum == SumSeq([k \in 1..Len(fn_args.prosody_frames) |->
                       IF k \in VoicedPositions
                       THEN fn_args.prosody_frames[k].pitch ELSE 0])
      squares == SumSeq([k \in 1..Len(fn_args.prosody_frames) |->
                           IF k \in VoicedPositions
                           THEN fn_args.prosody_frames[k].pitch
                                  * fn_args.prosody_frames[k].pitch
                           ELSE 0])
  IN  n * squares - sum * sum

\* C24: analyze_pitch_contour emits no tag unless at least 4 pitch samples
\* are non-null and strictly inside (70, 800) Hz; with 4 or more it emits
\* rising_intonation exactly when the last such sample exceeds the first by
\* more than 60 Hz and falling_intonation exactly when it is more than 60 Hz
\* below it, never both; pitch_wobble is emitted only with more than 5 such
\* samples whose standard deviation exceeds 40 Hz
C24_PitchContourRules ==
  ContourReturned =>
    LET n == Cardinality(VoicedPositions)
    IN  /\ n < 4 => fn_result = <<>>
        /\ n >= 4 =>
             /\ InList("rising_intonation", fn_result) <=> VoicedChange > 60
             /\ InList("falling_intonation", fn_result) <=> VoicedChange < -60
        /\ ~(InList("rising_intonation", fn_result)
             /\ InList("falling_intonation", fn_result))
        /\ InList("pitch_wobble", fn_result)
             => (n > 5 /\ VoicedSpread > 40 * 40 * n * n)

\* six in-band samples that rise by 61 Hz and wobble
C24_Witness ==
  /\ ContourReturned
  /\ Cardinality(VoicedPositions) = 6
  /\ VoicedChange = 61
  /\ fn_result = <<"rising_intonation", "pitch_wobble">>


\* ------------------------------------------------------------------------
\* Properties of analyze_intensity_change (SpecDynamics)
\* ------------------------------------------------------------------------
DynamicsReturned == fn = "analyze_intensity_change" /\ fn_pc = "returned"

\* the non-null intensity samples of the call, in frame order
Loudness ==
  LET kept == SelectSeq(fn_args.prosody_frames, LAMBDA p : p.intensity # NoneVal)
  IN  [k \in 1..Len(kept) |-> kept[k].intensity]

\* largest absolute difference of two consecutive samples
MaxStep ==
  LET steps == {Abs(Loudness[k] - Loudness[k - 1]) : k \in 2..Len(Loudness)}
  IN  CHOOSE c \in steps : \A d \in steps : c >= d

\* (mean of the samples after the midpoint - mean of those before it), times
\* the sizes of the two halves; the midpoint is floor(n / 2)
TrendTimes ==
  LET half == Len(Loudness) \div 2
      first == SubSeq(Loudness, 1, half)
      second == SubSeq(Loudness, half + 1, Len(Loudness))
  IN  SumSeq(second) * Len(first) - SumSeq(first) * Len(second)

HalvesProduct == (Len(Loudness) \div 2) * (Len(Loudness) - Len(Loudness) \div 2)

\* C25: analyze_intensity_change emits no tag with fewer than 3 intensity
\* samples; with 3 or more, intensity_spike exactly when the largest
\* absolute difference of consecutive samples exceeds 0.03; crescendo and
\* decrescendo only with 4 or more samples split at floor(n/2): crescendo
\* exactly when the second-half mean exceeds the first-half mean by more
\* than 0.03, otherwise decrescendo exactly when the first-half mean exceeds
\* the second-half mean by more than 0.02; never both
C25_IntensityDynamicsRules ==
  DynamicsReturned =>
    LET n == Len(Loudness)
        rising == TrendTimes > 300 * HalvesProduct
        falling == -TrendTimes > 200 * HalvesProduct
    IN  /\ n < 3 => fn_result = <<>>
        /\ n >= 3 => (InList("intensity_spike", fn_result) <=> MaxStep > 300)
        /\ n < 4 => (~InList("crescendo", fn_result)
                     /\ ~InList("decrescendo", fn_result))
        /\ n >= 4 =>
             /\ InList("crescendo", fn_result) <=> rising
             /\ InList("decrescendo", fn_result) <=> (~rising /\ falling)
        /\ ~(InList("crescendo", fn_result) /\ InList("decrescendo", fn_result))

\* five samples split two and three: a spike and a crescendo
C25_Witness ==
  /\ DynamicsReturned
  /\ Len(Loudness) = 5
  /\ fn_result = <<"intensity_spike", "crescendo">>


\* ------------------------------------------------------------------------
\* Properties of calculate_wrist_velocity (SpecVelocity)
\* ------------------------------------------------------------------------
VelocityReturned == fn = "calculate_wrist_velocity" /\ fn_pc = "returned"

\* frame k has a pose
HasPose(k) ==
  /\ HasKey(fn_args.vision_frames[k], "poses")
  /\ fn_args.vision_frames[k].poses # <<>>

\* frame k has a first pose with both wrists
HasWrists(k) ==
  /\ HasPose(k)
  /\ \E a, b \in 1..Len(fn_args.vision_frames[k].poses[1]) :
       /\ fn_args.vision_frames[k].poses[1][a].id = 15
       /\ fn_args.vision_frames[k].poses[1][b].id = 16

\* the consecutive pairs (k - 1, k) whose two frames have both wrists
WristPairs == {k \in 2..Len(fn_args.vision_frames) : HasWrists(k - 1) /\ HasWrists(k)}

\* sum over the pairs of WristPairs of left move + right move
WristTravel ==
  SumSeq([k \in 1..Len(fn_args.vision_frames) |->
            IF k \in WristPairs THEN pair_movement(fn_args.vision_frames, k) ELSE 0])

\* C26: calculate_wrist_velocity never divides by zero and never returns a
\* negative value; it returns 0.0 for fewer than 2 frames or when no
\* consecutive pair is valid, and otherwise the accumulated per-pair
\* displacement (mean of the two wrists' moves) divided by the number of
\* valid pairs; a frame without a pose takes part in no valid pair
C26_WristVelocityIsMeanOverValidPairs ==
  VelocityReturned =>
    /\ fn_result.den > 0
    /\ fn_result.num >= 0
    /\ (Len(fn_args.vision_frames) < 2 \/ WristPairs = {}) => fn_result.num = 0
    /\ WristPairs # {} =>
         fn_result.num * 2 * Cardinality(WristPairs) = fn_result.den * WristTravel
    /\ \A k \in 1..Len(fn_args.vision_frames) :
         ~HasPose(k) =>
           /\ k \notin WristPairs
           /\ k + 1 \notin WristPairs
           /\ (WristPairs # {} => fn_result.den = 2 * Cardinality(WristPairs))

\* four frames, the third without a pose: only the first pair counts, and
\* the wrists moved in it
C26_Witness ==
  /\ VelocityReturned
  /\ Len(fn_args.vision_frames) = 4
  /\ ~HasPose(3)
  /\ WristPairs = {2}
  /\ fn_result.num > 0
  /\ fn_result.den = 2


\* ------------------------------------------------------------------------
\* Properties of the report's histogram (Spec)
\* ------------------------------------------------------------------------
\* sum of the counts of the histogram over the tags of S
RECURSIVE SumCounts(_, _)
SumCounts(dist, S) ==
  IF S = {} THEN 0
  ELSE LET t == CHOOSE x \in S : TRUE
       IN  dist[t] + SumCounts(dist, S \ {t})

\* number of report words whose tag list contains t
WordsTagged(t) ==
  Cardinality({k \in 1..Len(report.words) : InList(t, report.words[k].tags)})

\* C27: in every report enrich_transcript returns for a non-empty word
\* list, sentence_analysis.word_count is the number of report words,
\* tag_distribution maps every tag that occurs to the number of report
\* words whose tags contain it (fallback words count under "error") and
\* nothing else, no entry is 0, and the counts add up to the total number
\* of tags of the report words
C27_HistogramMatchesReportWords ==
  (pc = "done" /\ words # <<>>) =>
    LET dist == report.sentence_analysis.tag_distribution
    IN  /\ report.sentence_analysis.word_count = Len(report.words)
        /\ \A k \in 1..Len(report.words) :
             \A j \in 1..Len(report.words[k].tags) :
               report.words[k].tags[j] \in DOMAIN dist
        /\ \A t \in DOMAIN dist : dist[t] = WordsTagged(t) /\ dist[t] > 0
        /\ SumCounts(dist, DOMAIN dist)
             = SumSeq([k \in 1..Len(report.words) |-> Len(report.words[k].tags)])

\* a report of three words: two fallback words counted under "error" and a
\* tag of the enriched word counted once
C27_Witness ==
  /\ pc = "done"
  /\ Len(report.words) = 3
  /\ "error" \in DOMAIN report.sentence_analysis.tag_distribution
  /\ report.sentence_analysis.tag_distribution["error"] = 2
  /\ \E t \in DOMAIN report.sentence_analysis.tag_distribution :
       t # "error" /\ report.sentence_analysis.tag_distribution[t] = 1


\* ------------------------------------------------------------------------
\* Properties of the job store of main.py (SpecJobs, SpecJobsPolled)
\* ------------------------------------------------------------------------
Stored(job_id) == job_id \in DOMAIN JOB_STATUS_DB

JobComplete(job_id) ==
  Stored(job_id) /\ JOB_STATUS_DB[job_id].status = "complete"

JobProcessing(job_id) ==
  Stored(job_id) /\ JOB_STATUS_DB[job_id].status = "processing"

\* the last response answers a poll of /api/status for job_id
AnswersPoll(job_id) ==
  /\ response # EmptyDict
  /\ response.endpoint = "get_job_status"
  /\ response.job_id = job_id

\* C28: in the job store 'complete' is absorbing and the core is called at
\* most once per job: a complete job never changes again (so it never
\* returns to 'processing', and no poll calls enrich_transcript for it
\* again), a poll of a complete job answers the stored job with its
\* enriched_transcript, a stored job is 'processing' only while it holds a
\* non-null modal_id, and a poll for an unknown job_id answers 404 and
\* creates no job
C28_CompleteIsAbsorbing ==
  /\ [](\A job_id \in PollIds :
          /\ Stored(job_id) => enrich_calls[job_id] <= 1
          /\ JobProcessing(job_id) =>
               /\ HasKey(JOB_STATUS_DB[job_id], "modal_id")
               /\ JOB_STATUS_DB[job_id].modal_id # None
          /\ (AnswersPoll(job_id) /\ ~Stored(job_id)) => response.status_code = 404
          /\ (AnswersPoll(job_id) /\ response.status_code = 404) => ~Stored(job_id)
          /\ (AnswersPoll(job_id) /\ JobComplete(job_id)) =>
               /\ response.status_code = 200
               /\ response.content = JOB_STATUS_DB[job_id]
               /\ response.content.enriched_transcript # None)
  /\ [][\A job_id \in PollIds :
          /\ JobComplete(job_id) =>
               /\ JOB_STATUS_DB'[job_id] = JOB_STATUS_DB[job_id]
               /\ enrich_calls'[job_id] = enrich_calls[job_id]
          /\ (~Stored(job_id) /\ job_id \in DOMAIN JOB_STATUS_DB') =>
               response'.endpoint = "upload_video"]_vars

\* a job completed by a poll that called the core once, polled again since
\* and still answered with the stored job
C28_Witness ==
  /\ JobComplete(1)
  /\ enrich_calls[1] = 1
  /\ JOB_STATUS_DB[1].vision # None
  /\ ~HasKey(JOB_STATUS_DB[1], "modal_id")
  /\ AnswersPoll(1)
  /\ response.content = JOB_STATUS_DB[1]
  /\ modal_lookup = "fails"


\* what the loop over as_completed must have recorded for a future: None
\* until the future was yielded and when its task raised, else its result
Recorded(fut) ==
  IF fut \in upload.yielded /\ ~future_of(upload, fut).outcome.raised
  THEN Some(future_of(upload, fut).outcome.result)
  ELSE None

\* C29: in upload_video, whichever of the two concurrent tasks completes
\* first, transcription_data holds the result of the transcription task and
\* prosody_data the result of the prosody task; the variable of a task that
\* raised stays None while the other task's result is recorded; and the job
\* is enriched and stored only after both tasks have finished, with those
\* two values
C29_ResultsGoToTheirOwnVariables ==
  /\ [](upload.pc = "tasks" =>
          /\ \A fut \in upload.yielded : future_of(upload, fut).state = "finished"
          /\ upload.transcription_data = Recorded("stt")
          /\ upload.prosody_data = Recorded("prosody"))
  /\ [][\A job_id \in JobIds :
          (~Stored(job_id) /\ job_id \in DOMAIN JOB_STATUS_DB') =>
            /\ upload.pc = "tasks"
            /\ upload.stt_future.state = "finished"
            /\ upload.prosody_future.state = "finished"
            /\ JOB_STATUS_DB'[job_id].transcription = Recorded("stt")
            /\ JOB_STATUS_DB'[job_id].prosody = Recorded("prosody")]_vars

\* the prosody task completed first and its result is recorded, while the
\* transcription task has raised and is yet to be yielded
C29_Witness ==
  /\ upload.pc = "tasks"
  /\ upload.yielded = {"prosody"}
  /\ upload.prosody_data # None
  /\ upload.stt_future = Finished([raised |-> TRUE])
  /\ upload.transcription_data = None


\* the state of the vision call of a stored job that waits for it
VisionCall(job_id) == modal_calls[JOB_STATUS_DB[job_id].modal_id.val]

\* C30: every job stored as 'processing' eventually becomes 'complete'
\* under repeated polling of /api/status once its remote vision call has
\* terminated, with a result or with a failure; and while the call is still
\* running, a poll that reaches the call leaves the stored job unchanged and
\* answers 'processing'
C30_ProcessingJobEventuallyCompletes ==
  /\ \A job_id \in JobIds :
       (JobProcessing(job_id) /\ VisionCall(job_id) \in {"done", "failed"})
         ~> JobComplete(job_id)
  /\ [][\A job_id \in JobIds :
          ( /\ JobProcessing(job_id)
            /\ VisionCall(job_id) = "running"
            /\ modal_lookup = "ok"
            /\ response' # response
            /\ response'.endpoint = "get_job_status"
            /\ response'.job_id = job_id )
          => /\ JOB_STATUS_DB' = JOB_STATUS_DB
             /\ response'.content.status = "processing"]_vars


====
